---- MODULE Spec2Model ----
(***************************************************************************)
(* QDWB: unit conversions, range checks and reference evapotranspiration   *)
(* formulas (src/qdwb).  Every function is pure; the state machine below   *)
(* is a caller that makes one call after another and, in places, feeds a   *)
(* result into the next call.  Floats are IEEE-754 binary64, computed bit  *)
(* for bit; the C library's sin, cos, tan, acos and pow are tables of      *)
(* their binary64 results at the arguments the calls reach.                *)
(***************************************************************************)
EXTENDS Integers, Sequences, FiniteSets, TLC

\* ---------------------------------------------------------------- naturals
\* Arbitrary-size naturals: little-endian sequences of limbs in base 2^15,
\* without leading (most significant) zero limbs; <<>> is 0.
Base == 2^15

Hd(a) == IF a = <<>> THEN 0 ELSE Head(a)

Tl(a) == IF a = <<>> THEN <<>> ELSE Tail(a)

RECURSIVE NStrip(_)
NStrip(a) ==
  IF a = <<>> THEN <<>>
  ELSE IF a[Len(a)] = 0 THEN NStrip(SubSeq(a, 1, Len(a) - 1)) ELSE a

RECURSIVE NAddC(_, _, _)
NAddC(a, b, c) ==
  IF a = <<>> /\ b = <<>> THEN (IF c = 0 THEN <<>> ELSE <<c>>)
  ELSE LET x == Hd(a) + Hd(b) + c
       IN  <<x % Base>> \o NAddC(Tl(a), Tl(b), x \div Base)

NAdd(a, b) == NAddC(a, b, 0)

RECURSIVE NSubB(_, _, _)
NSubB(a, b, c) ==
  IF a = <<>> THEN <<>>
  ELSE LET x == Hd(a) - Hd(b) - c
       IN  <<(x + Base) % Base>> \o NSubB(Tl(a), Tl(b), IF x < 0 THEN 1 ELSE 0)

\* a - b for a >= b
NSub(a, b) == NStrip(NSubB(a, b, 0))

RECURSIVE NCmpFrom(_, _, _)
NCmpFrom(a, b, i) ==
  IF i = 0 THEN 0
  ELSE IF a[i] < b[i] THEN -1
  ELSE IF a[i] > b[i] THEN 1
  ELSE NCmpFrom(a, b, i - 1)

NCmp(a, b) ==
  IF Len(a) < Len(b) THEN -1
  ELSE IF Len(a) > Len(b) THEN 1
  ELSE NCmpFrom(a, b, Len(a))

RECURSIVE NMulSmall(_, _, _)
NMulSmall(a, k, c) ==
  IF a = <<>> THEN (IF c = 0 THEN <<>> ELSE <<c>>)
  ELSE LET x == Head(a) * k + c
       IN  <<x % Base>> \o NMulSmall(Tail(a), k, x \div Base)

NShiftLimbs(a, n) == IF a = <<>> THEN <<>> ELSE [i \in 1..n |-> 0] \o a

RECURSIVE NMul(_, _)
NMul(a, b) ==
  IF b = <<>> THEN <<>>
  ELSE NAdd(NStrip(NMulSmall(a, Head(b), 0)), NShiftLimbs(NMul(a, Tail(b)), 1))

\* a * 2^s
NShl(a, s) ==
  NShiftLimbs(NStrip(NMulSmall(a, 2^(s % 15), 0)), s \div 15)

\* floor(a / 2^s)
NShr(a, s) ==
  LET q == s \div 15
      P == 2^(s % 15)
      t == IF q >= Len(a) THEN <<>> ELSE SubSeq(a, q + 1, Len(a))
  IN  NStrip([i \in 1..Len(t) |->
                (t[i] \div P)
                + (IF i < Len(t) THEN (t[i + 1] % P) * (Base \div P) ELSE 0)])

\* bit i (from 0) of a
NBit(a, i) ==
  LET k == (i \div 15) + 1
  IN  IF k > Len(a) THEN 0 ELSE (a[k] \div 2^(i % 15)) % 2

\* whether the s lowest bits of a are all 0
NLowBitsZero(a, s) ==
  LET q == s \div 15
  IN  /\ \A i \in 1..q : i > Len(a) \/ a[i] = 0
      /\ (q + 1 > Len(a) \/ a[q + 1] % 2^(s % 15) = 0)

NBitLen(a) ==
  IF a = <<>> THEN 0
  ELSE 15 * (Len(a) - 1)
       + (CHOOSE n \in 1..15 : 2^(n - 1) <= a[Len(a)] /\ a[Len(a)] < 2^n)

RECURSIVE NFromInt(_)
NFromInt(n) == IF n = 0 THEN <<>> ELSE <<n % Base>> \o NFromInt(n \div Base)

\* ------------------------------------------------------------------ floats
\* A Python float (IEEE-754 binary64) is [s, m, e]: the number (-1)^s * m * 2^e
\* with m a natural of exactly Prec bits, or zero ([s |-> 0, m |-> <<>>,
\* e |-> 0]).  Every operation rounds the exact result to nearest, ties to
\* even, as the hardware does.  Infinities, NaN and subnormals are outside the
\* ranges the inputs below reach, and the sign of a zero is not kept (-0.0
\* and 0.0 are equal in every comparison the code makes).
Prec == 53

Zero == [s |-> 0, m |-> <<>>, e |-> 0]

IsZero(x) == x.m = <<>>

RoundNE(s, M, E, sticky) ==
  IF M = <<>> THEN Zero
  ELSE LET n == NBitLen(M)
       IN  IF n <= Prec
           THEN [s |-> s, m |-> NShl(M, Prec - n), e |-> E - (Prec - n)]
           ELSE LET d    == n - Prec
                    q    == NShr(M, d)
                    half == NBit(M, d - 1) = 1
                    low  == sticky \/ ~NLowBitsZero(M, d - 1)
                    up   == half /\ (low \/ NBit(q, 0) = 1)
                    q2   == IF up THEN NAdd(q, <<1>>) ELSE q
                IN  IF NBitLen(q2) > Prec
                    THEN [s |-> s, m |-> NShr(q2, 1), e |-> E + d + 1]
                    ELSE [s |-> s, m |-> q2, e |-> E + d]

\* int -> float
FromInt(n) == RoundNE(IF n < 0 THEN 1 ELSE 0, NFromInt(IF n < 0 THEN -n ELSE n), 0, FALSE)

\* a float literal: sign, the four limbs of the significand (most significant
\* first), exponent
Dbl(s, l3, l2, l1, l0, e) == [s |-> s, m |-> <<l0, l1, l2, l3>>, e |-> e]

FNeg(x) == IF IsZero(x) THEN x ELSE [x EXCEPT !.s = 1 - x.s]

\* -1, 0, 1 as |x| <, =, > |y|
MagCmp(x, y) ==
  IF IsZero(x) THEN (IF IsZero(y) THEN 0 ELSE -1)
  ELSE IF IsZero(y) THEN 1
  ELSE IF x.e < y.e THEN -1
  ELSE IF x.e > y.e THEN 1
  ELSE NCmp(x.m, y.m)

FCmp(x, y) ==
  IF IsZero(x) /\ IsZero(y) THEN 0
  ELSE IF IsZero(x) THEN (IF y.s = 1 THEN 1 ELSE -1)
  ELSE IF IsZero(y) THEN (IF x.s = 1 THEN -1 ELSE 1)
  ELSE IF x.s # y.s THEN (IF x.s = 1 THEN -1 ELSE 1)
  ELSE IF x.s = 0 THEN MagCmp(x, y) ELSE -MagCmp(x, y)

FLt(x, y) == FCmp(x, y) < 0

FLe(x, y) == FCmp(x, y) <= 0

FGt(x, y) == FCmp(x, y) > 0

FGe(x, y) == FCmp(x, y) >= 0

FEq(x, y) == FCmp(x, y) = 0

FAdd(x, y) ==
  IF IsZero(x) THEN y
  ELSE IF IsZero(y) THEN x
  ELSE LET e0 == IF x.e < y.e THEN x.e ELSE y.e
           X  == NShl(x.m, x.e - e0)
           Y  == NShl(y.m, y.e - e0)
       IN  IF x.s = y.s THEN RoundNE(x.s, NAdd(X, Y), e0, FALSE)
           ELSE IF NCmp(X, Y) >= 0 THEN RoundNE(x.s, NSub(X, Y), e0, FALSE)
           ELSE RoundNE(y.s, NSub(Y, X), e0, FALSE)

FSub(x, y) == FAdd(x, FNeg(y))

FMul(x, y) ==
  IF IsZero(x) \/ IsZero(y) THEN Zero
  ELSE RoundNE((x.s + y.s) % 2, NMul(x.m, y.m), x.e + y.e, FALSE)

RECURSIVE DivBits(_, _, _, _)
\* k more quotient bits of r / d (r < d), after the bits q
DivBits(r, d, q, k) ==
  IF k = 0 THEN <<q, r>>
  ELSE LET r2 == NShl(r, 1)
           ge == NCmp(r2, d) >= 0
           r3 == IF ge THEN NSub(r2, d) ELSE r2
           q2 == NAdd(NShl(q, 1), IF ge THEN <<1>> ELSE <<>>)
       IN  IF Len(q2) >= 0 /\ Len(r3) >= 0 THEN DivBits(r3, d, q2, k - 1) ELSE <<q, r>>

\* x / y for y # 0
FDiv(x, y) ==
  IF IsZero(x) THEN Zero
  ELSE LET ge == NCmp(x.m, y.m) >= 0
           qr == DivBits(IF ge THEN NSub(x.m, y.m) ELSE x.m, y.m,
                         IF ge THEN <<1>> ELSE <<>>, Prec + 2)
       IN  RoundNE((x.s + y.s) % 2, qr[1], x.e - y.e - (Prec + 2), qr[2] # <<>>)

\* ------------------------------------------------------------ C library
\* math.sin of the C library at the arguments the calls below pass to it
\* (binary64 results, <<argument, result>>).
SinTable ==
  { <<Dbl(1, 201, 2029, 10376, 11544, -52), Dbl(1, 128, 0, 0, 0, -52)>>,
    <<Dbl(1, 178, 23649, 5582, 17543, -52), Dbl(1, 252, 3630, 6402, 7191, -53)>>,
    <<Dbl(1, 175, 23480, 30984, 15243, -52), Dbl(1, 250, 32693, 20558, 14255, -53)>>,
    <<Dbl(1, 173, 16815, 10850, 27864, -52), Dbl(1, 250, 3069, 18868, 25784, -53)>>,
    <<Dbl(1, 171, 10149, 23485, 7718, -52), Dbl(1, 249, 3785, 4859, 1494, -53)>>,
    <<Dbl(1, 169, 3484, 3351, 20339, -52), Dbl(1, 248, 2081, 27609, 31932, -53)>>,
    <<Dbl(1, 166, 29586, 15986, 193, -52), Dbl(1, 246, 30737, 28617, 10441, -53)>>,
    <<Dbl(1, 164, 22920, 28620, 12815, -52), Dbl(1, 245, 24228, 5532, 20399, -53)>>,
    <<Dbl(1, 162, 16255, 8486, 25436, -52), Dbl(1, 244, 15332, 12057, 3851, -53)>>,
    <<Dbl(1, 160, 9589, 21121, 5290, -52), Dbl(1, 243, 4062, 26756, 23273, -53)>>,
    <<Dbl(1, 158, 2924, 987, 17911, -52), Dbl(1, 241, 23200, 18478, 3467, -53)>>,
    <<Dbl(1, 155, 29026, 13621, 30533, -52), Dbl(1, 240, 7223, 11758, 3312, -53)>>,
    <<Dbl(1, 153, 22360, 26256, 10386, -52), Dbl(1, 238, 21681, 21154, 2802, -53)>>,
    <<Dbl(1, 151, 15695, 6122, 23008, -52), Dbl(1, 237, 1054, 18335, 25875, -53)>>,
    <<Dbl(1, 149, 9029, 18757, 2862, -52), Dbl(1, 235, 10893, 30242, 10545, -53)>>,
    <<Dbl(1, 148, 18429, 18771, 22365, -52), Dbl(1, 234, 25145, 15612, 29224, -53)>>,
    <<Dbl(1, 147, 2363, 31391, 15483, -52), Dbl(1, 233, 18448, 7856, 17617, -53)>>,
    <<Dbl(1, 144, 28466, 11257, 28105, -52), Dbl(1, 231, 23734, 22652, 25803, -53)>>,
    <<Dbl(1, 142, 21800, 23892, 7958, -52), Dbl(1, 229, 26771, 4286, 2904, -53)>>,
    <<Dbl(1, 140, 15135, 3758, 20580, -52), Dbl(1, 227, 27576, 2562, 25338, -53)>>,
    <<Dbl(1, 138, 8469, 16393, 434, -52), Dbl(1, 225, 26168, 23420, 21678, -53)>>,
    <<Dbl(1, 136, 1803, 29027, 13055, -52), Dbl(1, 223, 22568, 28742, 26706, -53)>>,
    <<Dbl(1, 133, 27906, 8893, 25677, -52), Dbl(1, 221, 16797, 1700, 30282, -53)>>,
    <<Dbl(1, 131, 21240, 21528, 5530, -52), Dbl(1, 219, 8874, 12092, 12703, -53)>>,
    <<Dbl(1, 129, 14575, 1394, 18152, -52), Dbl(1, 216, 31590, 19527, 4685, -53)>>,
    <<Dbl(1, 254, 15818, 28057, 28780, -53), Dbl(1, 214, 19432, 4288, 10067, -53)>>,
    <<Dbl(1, 250, 2487, 20558, 21254, -53), Dbl(1, 212, 5189, 32650, 22716, -53)>>,
    <<Dbl(1, 245, 21924, 13059, 13730, -53), Dbl(1, 209, 21655, 27281, 8642, -53)>>,
    <<Dbl(1, 241, 8593, 5560, 6205, -53), Dbl(1, 207, 3317, 29153, 19333, -53)>>,
    <<Dbl(1, 236, 28029, 30828, 31448, -53), Dbl(1, 204, 15737, 704, 12578, -53)>>,
    <<Dbl(1, 232, 14698, 23329, 23923, -53), Dbl(1, 201, 26170, 22200, 5630, -53)>>,
    <<Dbl(1, 228, 1367, 15830, 16398, -53), Dbl(1, 199, 1876, 29346, 6017, -53)>>,
    <<Dbl(1, 223, 20804, 8331, 8874, -53), Dbl(1, 196, 8418, 9641, 17298, -53)>>,
    <<Dbl(1, 219, 7473, 832, 1349, -53), Dbl(1, 193, 13054, 2120, 23915, -53)>>,
    <<Dbl(1, 214, 26909, 26100, 26592, -53), Dbl(1, 190, 15811, 31553, 23209, -53)>>,
    <<Dbl(1, 210, 13578, 18601, 19067, -53), Dbl(1, 187, 16720, 9872, 8823, -53)>>,
    <<Dbl(1, 206, 247, 11102, 11542, -53), Dbl(1, 184, 15807, 30807, 6446, -53)>>,
    <<Dbl(1, 201, 19684, 3603, 4018, -53), Dbl(1, 181, 13104, 9160, 708, -53)>>,
    <<Dbl(1, 201, 2029, 10376, 11544, -53), Dbl(1, 181, 633, 19710, 15308, -53)>>,
    <<Dbl(1, 197, 6352, 28871, 29261, -53), Dbl(1, 178, 8639, 8197, 18093, -53)>>,
    <<Dbl(1, 192, 25789, 21372, 21736, -53), Dbl(1, 175, 2443, 9985, 8210, -53)>>,
    <<Dbl(1, 188, 12458, 13873, 14211, -53), Dbl(1, 171, 27315, 13395, 17740, -53)>>,
    <<Dbl(1, 183, 31895, 6374, 6686, -53), Dbl(1, 168, 17751, 1039, 4584, -53)>>,
    <<Dbl(1, 179, 18563, 31642, 31930, -53), Dbl(1, 165, 6550, 4495, 16030, -53)>>,
    <<Dbl(1, 175, 5232, 24143, 24405, -53), Dbl(1, 161, 26513, 5698, 12996, -53)>>,
    <<Dbl(1, 170, 24669, 16644, 16880, -53), Dbl(1, 158, 12137, 2156, 31514, -53)>>,
    <<Dbl(1, 166, 11338, 9145, 9355, -53), Dbl(1, 154, 28991, 6635, 29123, -53)>>,
    <<Dbl(1, 161, 30775, 1646, 1830, -53), Dbl(1, 151, 11573, 14063, 9131, -53)>>,
    <<Dbl(1, 157, 17443, 26914, 27073, -53), Dbl(1, 147, 25454, 1201, 32652, -53)>>,
    <<Dbl(1, 153, 4112, 19415, 19549, -53), Dbl(1, 144, 5131, 24620, 23324, -53)>>,
    <<Dbl(1, 148, 23549, 11916, 12024, -53), Dbl(1, 140, 16177, 23748, 23286, -53)>>,
    <<Dbl(1, 144, 10218, 4417, 4499, -53), Dbl(1, 136, 25859, 17142, 18968, -53)>>,
    <<Dbl(1, 139, 29654, 29685, 29742, -53), Dbl(1, 133, 1445, 3836, 28121, -53)>>,
    <<Dbl(1, 135, 16323, 22186, 22217, -53), Dbl(1, 129, 8506, 28530, 25460, -53)>>,
    <<Dbl(1, 131, 2992, 14687, 14693, -53), Dbl(1, 250, 28627, 2022, 10472, -54)>>,
    <<Dbl(1, 253, 12090, 14376, 14336, -54), Dbl(1, 243, 5036, 14183, 7838, -54)>>,
    <<Dbl(1, 244, 18195, 32145, 32054, -54), Dbl(1, 235, 11852, 26680, 9122, -54)>>,
    <<Dbl(1, 235, 24301, 17147, 17004, -54), Dbl(1, 227, 16383, 28342, 9688, -54)>>,
    <<Dbl(1, 226, 30407, 2149, 1954, -54), Dbl(1, 219, 18705, 30188, 13210, -54)>>,
    <<Dbl(1, 218, 3744, 19918, 19672, -54), Dbl(1, 211, 18895, 31918, 24625, -54)>>,
    <<Dbl(1, 209, 32702, 31954, 22252, -54), Dbl(1, 204, 5227, 8492, 2652, -54)>>,
    <<Dbl(1, 209, 13112, 12481, 28870, -54), Dbl(1, 203, 20024, 31148, 6327, -54)>>,
    <<Dbl(1, 209, 11073, 18445, 24347, -54), Dbl(1, 203, 18154, 7690, 13115, -54)>>,
    <<Dbl(1, 209, 9850, 4920, 4624, -54), Dbl(1, 203, 17031, 21166, 31429, -54)>>,
    <<Dbl(1, 205, 32598, 8822, 5393, -54), Dbl(1, 200, 15799, 2632, 2119, -54)>>,
    <<Dbl(1, 205, 10359, 12688, 1043, -54), Dbl(1, 199, 28098, 7001, 30261, -54)>>,
    <<Dbl(1, 200, 15955, 22689, 22342, -54), Dbl(1, 195, 13191, 5514, 13335, -54)>>,
    <<Dbl(1, 191, 22061, 7691, 7292, -54), Dbl(1, 187, 7453, 11730, 20404, -54)>>,
    <<Dbl(1, 182, 28166, 25460, 25012, -54), Dbl(1, 178, 32665, 19471, 32071, -54)>>,
    <<Dbl(1, 174, 1504, 10462, 9960, -54), Dbl(1, 170, 23371, 26046, 30505, -54)>>,
    <<Dbl(1, 165, 7609, 28231, 27680, -54), Dbl(1, 162, 12420, 12872, 907, -54)>>,
    <<Dbl(1, 156, 13715, 13233, 12628, -54), Dbl(1, 153, 32660, 10226, 30028, -54)>>,
    <<Dbl(1, 147, 19820, 31002, 30348, -54), Dbl(1, 145, 18636, 30932, 19096, -54)>>,
    <<Dbl(1, 138, 25926, 16004, 15300, -54), Dbl(1, 137, 3200, 4025, 1699, -54)>>,
    <<Dbl(1, 129, 32032, 1006, 248, -54), Dbl(1, 128, 19200, 3336, 25809, -54)>>,
    <<Dbl(1, 242, 10739, 4783, 3168, -55), Dbl(1, 240, 2367, 1876, 1710, -55)>>,
    <<Dbl(1, 224, 22950, 7554, 5832, -55), Dbl(1, 222, 29538, 27580, 18143, -55)>>,
    <<Dbl(1, 207, 2393, 10325, 8504, -55), Dbl(1, 205, 21778, 9272, 15336, -55)>>,
    <<Dbl(1, 189, 14604, 13096, 11176, -55), Dbl(1, 188, 12020, 24524, 21752, -55)>>,
    <<Dbl(1, 178, 23649, 5582, 17543, -55), Dbl(1, 177, 26729, 31766, 29577, -55)>>,
    <<Dbl(1, 171, 26815, 15867, 13840, -55), Dbl(1, 171, 434, 6460, 12341, -55)>>,
    <<Dbl(1, 154, 6258, 18638, 16512, -55), Dbl(1, 153, 19955, 4266, 11447, -55)>>,
    <<Dbl(1, 136, 18469, 21409, 19176, -55), Dbl(1, 136, 5216, 17716, 23200, -55)>>,
    <<Dbl(1, 237, 28593, 15593, 10928, -56), Dbl(1, 237, 11079, 23832, 4145, -56)>>,
    <<Dbl(1, 202, 20247, 21135, 16272, -56), Dbl(1, 202, 9421, 27916, 20768, -56)>>,
    <<Dbl(1, 167, 11901, 26677, 21600, -56), Dbl(1, 167, 5799, 25947, 10932, -56)>>,
    <<Dbl(1, 132, 3555, 32219, 26944, -56), Dbl(1, 132, 554, 15256, 19436, -56)>>,
    <<Dbl(1, 193, 23188, 9987, 31776, -57), Dbl(1, 193, 20822, 17876, 31041, -57)>>,
    <<Dbl(1, 246, 12993, 9376, 19392, -58), Dbl(1, 246, 11775, 31831, 5307, -58)>>,
    <<Dbl(1, 210, 24755, 30322, 16000, -59), Dbl(1, 210, 24565, 15419, 26745, -59)>>,
    <<Dbl(1, 202, 5037, 14502, 5044, -59), Dbl(1, 202, 4869, 12074, 7110, -59)>>,
    <<Dbl(1, 173, 21536, 4084, 1166, -60), Dbl(1, 173, 21509, 15995, 29262, -60)>>,
    <<Dbl(1, 172, 12885, 19494, 22598, -60), Dbl(1, 172, 12859, 17559, 4325, -60)>>,
    <<Zero, Zero>>,
    <<Dbl(0, 233, 7673, 22613, 14898, -62), Dbl(0, 233, 7669, 21523, 27893, -62)>>,
    <<Dbl(0, 142, 18485, 14520, 13824, -60), Dbl(0, 142, 18470, 23116, 614, -60)>>,
    <<Dbl(0, 176, 21620, 22421, 14848, -58), Dbl(0, 176, 21172, 637, 26590, -58)>>,
    <<Dbl(0, 158, 27502, 126, 13152, -57), Dbl(0, 158, 26197, 18882, 16942, -57)>>,
    <<Dbl(0, 229, 11425, 21810, 2464, -57), Dbl(0, 229, 7499, 7244, 26966, -57)>>,
    <<Dbl(0, 149, 30442, 21746, 28672, -56), Dbl(0, 149, 26055, 17769, 2723, -56)>>,
    <<Dbl(0, 162, 19389, 24246, 32648, -56), Dbl(0, 162, 13794, 25444, 24060, -56)>>,
    <<Dbl(0, 163, 21910, 20348, 21707, -56), Dbl(0, 163, 16203, 25173, 6608, -56)>>,
    <<Dbl(0, 166, 27356, 14943, 14148, -56), Dbl(0, 166, 21312, 1002, 18723, -56)>>,
    <<Dbl(0, 171, 31940, 9121, 11272, -56), Dbl(0, 171, 25319, 31072, 1922, -56)>>,
    <<Dbl(0, 185, 6020, 16204, 23328, -56), Dbl(0, 184, 30522, 32217, 15137, -56)>>,
    <<Dbl(0, 220, 14366, 10662, 17984, -56), Dbl(0, 220, 426, 25042, 21237, -56)>>,
    <<Dbl(0, 255, 22712, 5120, 12656, -56), Dbl(0, 255, 962, 8139, 11725, -56)>>,
    <<Dbl(0, 145, 15528, 32557, 3656, -55), Dbl(0, 144, 32278, 23456, 23947, -55)>>,
    <<Dbl(0, 163, 3317, 29786, 992, -55), Dbl(0, 162, 13516, 17103, 22616, -55)>>,
    <<Dbl(0, 178, 23649, 5582, 17543, -55), Dbl(0, 177, 26729, 31766, 29577, -55)>>,
    <<Dbl(0, 180, 23874, 27014, 31088, -55), Dbl(0, 179, 25945, 10637, 5727, -55)>>,
    <<Dbl(0, 198, 11663, 24243, 28416, -55), Dbl(0, 197, 3860, 12228, 9656, -55)>>,
    <<Dbl(0, 211, 25421, 3430, 18919, -55), Dbl(0, 210, 8826, 13316, 26394, -55)>>,
    <<Dbl(0, 215, 32220, 21472, 25752, -55), Dbl(0, 214, 12629, 14231, 6478, -55)>>,
    <<Dbl(0, 229, 958, 25680, 11413, -55), Dbl(0, 227, 4080, 9989, 22049, -55)>>,
    <<Dbl(0, 233, 20009, 18701, 23080, -55), Dbl(0, 231, 19316, 27584, 19386, -55)>>,
    <<Dbl(0, 251, 7798, 15930, 20416, -55), Dbl(0, 248, 23755, 17903, 24966, -55)>>,
    <<Dbl(0, 134, 14177, 22963, 25256, -54), Dbl(0, 132, 29273, 19087, 9774, -54)>>,
    <<Dbl(0, 143, 8072, 5194, 7536, -54), Dbl(0, 141, 12611, 496, 18746, -54)>>,
    <<Dbl(0, 152, 1966, 20192, 22588, -54), Dbl(0, 149, 27343, 20311, 3622, -54)>>,
    <<Dbl(0, 160, 28629, 2423, 4868, -54), Dbl(0, 158, 7853, 11536, 9712, -54)>>,
    <<Dbl(0, 169, 22523, 17421, 19920, -54), Dbl(0, 166, 19594, 19608, 4234, -54)>>,
    <<Dbl(0, 178, 16417, 32420, 2200, -54), Dbl(0, 174, 29718, 6577, 22262, -54)>>,
    <<Dbl(0, 187, 10312, 14650, 17248, -54), Dbl(0, 183, 5375, 15739, 4044, -54)>>,
    <<Dbl(0, 196, 4206, 29648, 32300, -54), Dbl(0, 191, 12022, 8573, 4047, -54)>>,
    <<Dbl(0, 204, 30869, 11879, 14580, -54), Dbl(0, 199, 16810, 29365, 10508, -54)>>,
    <<Dbl(0, 209, 12347, 3414, 16619, -54), Dbl(0, 203, 19322, 25659, 10209, -54)>>,
    <<Dbl(0, 209, 13369, 11022, 4810, -54), Dbl(0, 203, 20260, 23358, 25106, -54)>>,
    <<Dbl(0, 209, 32702, 31954, 22252, -54), Dbl(0, 204, 5227, 8492, 2652, -54)>>,
    <<Dbl(0, 213, 24763, 26877, 29632, -54), Dbl(0, 207, 19662, 9371, 23329, -54)>>,
    <<Dbl(0, 222, 18658, 9108, 11912, -54), Dbl(0, 215, 20497, 29730, 22262, -54)>>,
    <<Dbl(0, 231, 12552, 24106, 26960, -54), Dbl(0, 223, 19239, 27313, 14646, -54)>>,
    <<Dbl(0, 240, 6447, 6337, 9244, -54), Dbl(0, 231, 15810, 24856, 24130, -54)>>,
    <<Dbl(0, 249, 341, 21335, 24292, -54), Dbl(0, 239, 10134, 641, 13074, -54)>>,
    <<Dbl(0, 128, 29886, 1783, 3288, -53), Dbl(0, 247, 2133, 20308, 26278, -54)>>,
    <<Dbl(0, 133, 10449, 9282, 10812, -53), Dbl(0, 254, 24502, 8222, 24453, -54)>>,
    <<Dbl(0, 137, 23780, 16781, 18338, -53), Dbl(0, 131, 5814, 21556, 11471, -53)>>,
    <<Dbl(0, 142, 4343, 24280, 25862, -53), Dbl(0, 134, 30872, 15559, 2111, -53)>>,
    <<Dbl(0, 146, 17674, 31780, 618, -53), Dbl(0, 138, 21852, 708, 27992, -53)>>,
    <<Dbl(0, 150, 31006, 6511, 8144, -53), Dbl(0, 142, 11485, 4317, 19821, -53)>>,
    <<Dbl(0, 155, 11569, 14010, 15668, -53), Dbl(0, 145, 32504, 1234, 30170, -53)>>,
    <<Dbl(0, 159, 24900, 21509, 23194, -53), Dbl(0, 149, 19337, 12499, 13871, -53)>>,
    <<Dbl(0, 164, 5463, 29008, 30718, -53), Dbl(0, 153, 4718, 7378, 2362, -53)>>,
    <<Dbl(0, 168, 18795, 3740, 5474, -53), Dbl(0, 156, 21380, 2009, 13337, -53)>>,
    <<Dbl(0, 172, 32126, 11239, 12998, -53), Dbl(0, 160, 3752, 26970, 20031, -53)>>,
    <<Dbl(0, 177, 12689, 18738, 20526, -53), Dbl(0, 163, 17338, 29304, 9712, -53)>>,
    <<Dbl(0, 181, 26020, 26237, 28050, -53), Dbl(0, 166, 29337, 3916, 29805, -53)>>,
    <<Dbl(0, 186, 6584, 969, 2806, -53), Dbl(0, 170, 6946, 26668, 21935, -53)>>,
    <<Dbl(0, 190, 19915, 8468, 10330, -53), Dbl(0, 173, 15671, 25314, 30530, -53)>>,
    <<Dbl(0, 195, 478, 15967, 17854, -53), Dbl(0, 176, 22712, 9194, 29272, -53)>>,
    <<Dbl(0, 199, 13809, 23466, 25382, -53), Dbl(0, 179, 28037, 4003, 17702, -53)>>,
    <<Dbl(0, 201, 2029, 10376, 11544, -53), Dbl(0, 181, 633, 19710, 15308, -53)>>,
    <<Dbl(0, 203, 27140, 30966, 138, -53), Dbl(0, 182, 31615, 19326, 24552, -53)>>,
    <<Dbl(0, 208, 7704, 5697, 7662, -53), Dbl(0, 186, 649, 16171, 14867, -53)>>,
    <<Dbl(0, 212, 21035, 13196, 15186, -53), Dbl(0, 189, 645, 5562, 25680, -53)>>,
    <<Dbl(0, 217, 1598, 20695, 22710, -53), Dbl(0, 191, 31573, 16064, 3117, -53)>>,
    <<Dbl(0, 221, 14929, 28194, 30238, -53), Dbl(0, 194, 27869, 28523, 26277, -53)>>,
    <<Dbl(0, 225, 28261, 2926, 4994, -53), Dbl(0, 197, 22274, 9120, 30373, -53)>>,
    <<Dbl(0, 230, 8824, 10425, 12518, -53), Dbl(0, 200, 14759, 7941, 9521, -53)>>,
    <<Dbl(0, 234, 22155, 17924, 20042, -53), Dbl(0, 203, 5297, 28172, 8363, -53)>>,
    <<Dbl(0, 239, 2718, 25423, 27566, -53), Dbl(0, 205, 26631, 26363, 31037, -53)>>,
    <<Dbl(0, 243, 16050, 155, 2326, -53), Dbl(0, 208, 13199, 10988, 28783, -53)>>,
    <<Dbl(0, 247, 29381, 7654, 9850, -53), Dbl(0, 210, 30511, 9923, 29238, -53)>>,
    <<Dbl(0, 252, 9944, 15153, 17374, -53), Dbl(0, 213, 13007, 5158, 11793, -53)>>,
    <<Dbl(0, 128, 11637, 27710, 12449, -52), Dbl(0, 215, 26198, 31336, 18142, -53)>>,
    <<Dbl(0, 130, 18303, 15075, 32595, -52), Dbl(0, 218, 4527, 12150, 4192, -53)>>,
    <<Dbl(0, 132, 24969, 2441, 19975, -52), Dbl(0, 220, 13505, 22708, 20916, -53)>>,
    <<Dbl(0, 134, 31634, 22575, 7353, -52), Dbl(0, 222, 20343, 27616, 1025, -53)>>,
    <<Dbl(0, 137, 5532, 9940, 27499, -52), Dbl(0, 224, 25020, 12257, 1324, -53)>>,
    <<Dbl(0, 139, 12197, 30074, 14877, -52), Dbl(0, 226, 27514, 15773, 13897, -53)>>,
    <<Dbl(0, 141, 18863, 17440, 2255, -52), Dbl(0, 228, 27806, 193, 32253, -53)>>,
    <<Dbl(0, 143, 22226, 15828, 22517, -52), Dbl(0, 230, 23014, 24702, 10127, -53)>>,
    <<Dbl(0, 143, 22311, 5150, 6871, -52), Dbl(0, 230, 23088, 5082, 804, -53)>>,
    <<Dbl(0, 143, 22563, 10684, 3131, -52), Dbl(0, 230, 23306, 24046, 7075, -53)>>,
    <<Dbl(0, 143, 22982, 30691, 13453, -52), Dbl(0, 230, 23670, 12767, 22770, -53)>>,
    <<Dbl(0, 143, 25529, 4805, 22403, -52), Dbl(0, 230, 25875, 14470, 10005, -53)>>,
    <<Dbl(0, 144, 26132, 2672, 16515, -52), Dbl(0, 231, 21749, 6288, 32306, -53)>>,
    <<Dbl(0, 145, 613, 12999, 12959, -52), Dbl(0, 231, 27907, 22774, 13345, -53)>>,
    <<Dbl(0, 145, 32194, 24939, 9781, -52), Dbl(0, 232, 21703, 30826, 5105, -53)>>,
    <<Dbl(0, 148, 6092, 12304, 29927, -52), Dbl(0, 234, 15273, 10476, 16287, -53)>>,
    <<Dbl(0, 148, 18429, 18771, 22365, -52), Dbl(0, 234, 25145, 15612, 29224, -53)>>,
    <<Dbl(0, 150, 12757, 32438, 17305, -52), Dbl(0, 236, 6566, 2108, 1423, -53)>>,
    <<Dbl(0, 152, 19423, 19804, 4683, -52), Dbl(0, 237, 28333, 10977, 10585, -53)>>,
    <<Dbl(0, 154, 26089, 7169, 24831, -52), Dbl(0, 239, 15022, 31842, 6151, -53)>>,
    <<Dbl(0, 156, 32754, 27303, 12209, -52), Dbl(0, 240, 32155, 16350, 23730, -53)>>,
    <<Dbl(0, 159, 6652, 14668, 32355, -52), Dbl(0, 242, 14180, 4263, 17040, -53)>>,
    <<Dbl(0, 161, 13318, 2034, 19733, -52), Dbl(0, 243, 26618, 25293, 7851, -53)>>,
    <<Dbl(0, 163, 19983, 22168, 7111, -52), Dbl(0, 245, 3922, 937, 15315, -53)>>,
    <<Dbl(0, 165, 26649, 9533, 27259, -52), Dbl(0, 246, 11613, 6752, 25513, -53)>>,
    <<Dbl(0, 168, 546, 29667, 14637, -52), Dbl(0, 247, 16912, 10333, 32705, -53)>>,
    <<Dbl(0, 170, 7212, 17033, 2015, -52), Dbl(0, 248, 19808, 2502, 20027, -53)>>,
    <<Dbl(0, 172, 13878, 4398, 22161, -52), Dbl(0, 249, 20289, 30184, 9569, -53)>>,
    <<Dbl(0, 174, 20543, 24532, 9539, -52), Dbl(0, 250, 18347, 32671, 16938, -53)>>,
    <<Dbl(0, 176, 27209, 11897, 29687, -52), Dbl(0, 251, 13973, 5559, 7606, -53)>>,
    <<Dbl(0, 178, 23649, 5582, 17543, -52), Dbl(0, 252, 3630, 6402, 7191, -53)>>,
    <<Dbl(0, 179, 1106, 32031, 17065, -52), Dbl(0, 252, 7157, 833, 17956, -53)>>,
    <<Dbl(0, 181, 7772, 19397, 4443, -52), Dbl(0, 252, 30659, 28649, 14188, -53)>>,
    <<Dbl(0, 183, 14438, 6762, 24589, -52), Dbl(0, 253, 18938, 24637, 12568, -53)>>,
    <<Dbl(0, 185, 21103, 26896, 11969, -52), Dbl(0, 254, 4755, 13811, 1556, -53)>>,
    <<Dbl(0, 187, 27769, 14261, 32115, -52), Dbl(0, 254, 20872, 12323, 25584, -53)>>,
    <<Dbl(0, 190, 1667, 1627, 19493, -52), Dbl(0, 255, 1748, 27522, 3947, -53)>>,
    <<Dbl(0, 192, 3189, 26849, 17909, -52), Dbl(0, 255, 12203, 9257, 17573, -53)>>,
    <<Dbl(0, 192, 8332, 21761, 6871, -52), Dbl(0, 255, 12916, 25224, 5136, -53)>>,
    <<Dbl(0, 194, 14998, 9126, 27017, -52), Dbl(0, 255, 21604, 28062, 25943, -53)>>,
    <<Dbl(0, 196, 21663, 29260, 14397, -52), Dbl(0, 255, 27810, 17213, 28571, -53)>>,
    <<Dbl(0, 197, 7019, 6059, 9066, -52), Dbl(0, 255, 28978, 7072, 3694, -53)>>,
    <<Dbl(0, 197, 7937, 6072, 20253, -52), Dbl(0, 255, 29033, 6470, 10209, -53)>>,
    <<Dbl(0, 197, 14059, 10716, 25752, -52), Dbl(0, 255, 29389, 19602, 26848, -53)>>,
    <<Dbl(0, 198, 28329, 16626, 1775, -52), Dbl(0, 255, 31531, 30725, 6104, -53)>>,
    <<Dbl(0, 199, 15810, 718, 13973, -52), Dbl(0, 255, 32129, 12372, 24058, -53)>>,
    <<Dbl(0, 199, 16442, 12566, 17933, -52), Dbl(0, 255, 32144, 29091, 28016, -53)>>,
    <<Dbl(0, 199, 16814, 16890, 3668, -52), Dbl(0, 255, 32153, 30348, 4213, -53)>>,
    <<Dbl(0, 199, 25236, 32000, 21027, -52), Dbl(0, 255, 32340, 27257, 12393, -53)>>,
    <<Dbl(0, 200, 12568, 28803, 24946, -52), Dbl(0, 255, 32650, 6449, 29837, -53)>>,
    <<Dbl(0, 200, 12730, 22181, 9741, -52), Dbl(0, 255, 32651, 29672, 21933, -53)>>,
    <<Dbl(0, 200, 17632, 12777, 30451, -52), Dbl(0, 255, 32697, 24697, 17988, -53)>>,
    <<Dbl(0, 200, 27333, 26575, 2480, -52), Dbl(0, 255, 32754, 23565, 8716, -53)>>,
    <<Dbl(0, 201, 2029, 10376, 11544, -52), Dbl(0, 128, 0, 0, 0, -52)>>,
    <<Dbl(0, 201, 2227, 3991, 21921, -52), Dbl(0, 255, 32767, 32462, 10527, -53)>>,
    <<Dbl(0, 201, 9492, 26945, 20609, -52), Dbl(0, 255, 32754, 23565, 8716, -53)>>,
    <<Dbl(0, 201, 19194, 7974, 25406, -52), Dbl(0, 255, 32697, 24697, 17988, -53)>>,
    <<Dbl(0, 201, 24095, 31339, 13347, -52), Dbl(0, 255, 32651, 29672, 21933, -53)>>,
    <<Dbl(0, 201, 24257, 24716, 30910, -52), Dbl(0, 255, 32650, 6449, 29837, -53)>>,
    <<Dbl(0, 202, 11589, 21520, 2062, -52), Dbl(0, 255, 32340, 27257, 12393, -53)>>,
    <<Dbl(0, 202, 20012, 3862, 19421, -52), Dbl(0, 255, 32153, 30348, 4213, -53)>>,
    <<Dbl(0, 202, 20384, 8186, 5156, -52), Dbl(0, 255, 32144, 29091, 28016, -53)>>,
    <<Dbl(0, 202, 21016, 20034, 9115, -52), Dbl(0, 255, 32129, 12372, 24058, -53)>>,
    <<Dbl(0, 203, 8892, 24125, 9299, -52), Dbl(0, 255, 31518, 10423, 12065, -53)>>,
    <<Dbl(0, 204, 22767, 10035, 30105, -52), Dbl(0, 255, 29389, 19602, 26848, -53)>>,
    <<Dbl(0, 204, 28889, 14680, 2835, -52), Dbl(0, 255, 29033, 6470, 10209, -53)>>,
    <<Dbl(0, 204, 29807, 14693, 14023, -52), Dbl(0, 255, 28978, 7072, 3694, -53)>>,
    <<Dbl(0, 205, 15558, 11490, 29445, -52), Dbl(0, 255, 27783, 9510, 15724, -53)>>,
    <<Dbl(0, 207, 22223, 31624, 16825, -52), Dbl(0, 255, 21564, 454, 9002, -53)>>,
    <<Dbl(0, 209, 28889, 18990, 4203, -52), Dbl(0, 255, 12862, 10875, 2964, -53)>>,
    <<Dbl(0, 210, 868, 26671, 5180, -52), Dbl(0, 255, 12203, 9257, 17573, -53)>>,
    <<Dbl(0, 212, 2787, 6355, 24349, -52), Dbl(0, 255, 1680, 26961, 2933, -53)>>,
    <<Dbl(0, 214, 9452, 26489, 11727, -52), Dbl(0, 254, 20790, 26211, 7285, -53)>>,
    <<Dbl(0, 216, 16118, 13854, 31873, -52), Dbl(0, 254, 4660, 10171, 1813, -53)>>,
    <<Dbl(0, 218, 22784, 1220, 19253, -52), Dbl(0, 253, 18830, 4393, 15518, -53)>>,
    <<Dbl(0, 220, 29449, 21354, 6631, -52), Dbl(0, 252, 30537, 25624, 8826, -53)>>,
    <<Dbl(0, 223, 3347, 8719, 26777, -52), Dbl(0, 252, 7021, 16212, 20667, -53)>>,
    <<Dbl(0, 225, 10012, 28853, 14155, -52), Dbl(0, 251, 13824, 7890, 17884, -53)>>,
    <<Dbl(0, 227, 16678, 16219, 1533, -52), Dbl(0, 250, 18185, 23401, 4610, -53)>>,
    <<Dbl(0, 229, 23344, 3584, 21681, -52), Dbl(0, 249, 20114, 10887, 31821, -53)>>,
    <<Dbl(0, 231, 30009, 23718, 9059, -52), Dbl(0, 248, 19619, 7653, 9502, -53)>>,
    <<Dbl(0, 234, 3907, 11083, 29205, -52), Dbl(0, 247, 16710, 8997, 10320, -53)>>,
    <<Dbl(0, 236, 10572, 31217, 16583, -52), Dbl(0, 246, 11398, 890, 17120, -53)>>,
    <<Dbl(0, 238, 17238, 18583, 3961, -52), Dbl(0, 245, 3693, 25406, 32652, -53)>>,
    <<Dbl(0, 240, 23904, 5948, 24109, -52), Dbl(0, 243, 26377, 16774, 28254, -53)>>,
    <<Dbl(0, 242, 30569, 26082, 11487, -52), Dbl(0, 242, 13925, 30635, 27461, -53)>>,
    <<Dbl(0, 245, 4467, 13447, 31633, -52), Dbl(0, 240, 31888, 14545, 30756, -53)>>,
    <<Dbl(0, 247, 11133, 813, 19011, -52), Dbl(0, 239, 14743, 4453, 12041, -53)>>,
    <<Dbl(0, 249, 17798, 20947, 6389, -52), Dbl(0, 237, 28040, 26257, 20858, -53)>>,
    <<Dbl(0, 251, 24464, 8312, 26537, -52), Dbl(0, 236, 6260, 30129, 31239, -53)>>,
    <<Dbl(0, 253, 31129, 28446, 13915, -52), Dbl(0, 234, 14955, 21434, 30106, -53)>>,
    <<Dbl(0, 128, 2513, 24290, 646, -51), Dbl(0, 232, 21373, 27805, 18987, -53)>>,
    <<Dbl(0, 128, 18106, 20260, 21449, -51), Dbl(0, 231, 27907, 22774, 13345, -53)>>,
    <<Dbl(0, 128, 21731, 9040, 3287, -51), Dbl(0, 231, 21749, 6288, 32306, -53)>>,
    <<Dbl(0, 129, 5846, 17972, 27104, -51), Dbl(0, 230, 25533, 675, 28884, -53)>>,
    <<Dbl(0, 129, 6921, 27798, 21202, -51), Dbl(0, 230, 23670, 12767, 22769, -53)>>,
    <<Dbl(0, 129, 7131, 21418, 9979, -51), Dbl(0, 230, 23306, 24046, 7074, -53)>>,
    <<Dbl(0, 129, 7257, 24185, 8109, -51), Dbl(0, 230, 23088, 5082, 803, -53)>>,
    <<Dbl(0, 129, 7300, 2462, 286, -51), Dbl(0, 230, 23014, 24702, 10127, -53)>>,
    <<Dbl(0, 130, 9179, 11655, 20792, -51), Dbl(0, 228, 27451, 11718, 18833, -53)>>,
    <<Dbl(0, 131, 12512, 5338, 14482, -51), Dbl(0, 226, 27147, 23292, 20185, -53)>>,
    <<Dbl(0, 132, 15844, 31789, 8172, -51), Dbl(0, 224, 24641, 19332, 4138, -53)>>,
    <<Dbl(0, 133, 19177, 25472, 1860, -51), Dbl(0, 222, 19953, 5156, 31255, -53)>>,
    <<Dbl(0, 134, 22510, 19154, 28318, -51), Dbl(0, 220, 13103, 7276, 29495, -53)>>,
    <<Dbl(0, 135, 25843, 12837, 22006, -51), Dbl(0, 218, 4113, 7653, 21886, -53)>>,
    <<Dbl(0, 136, 29176, 6520, 15696, -51), Dbl(0, 215, 25773, 9028, 19279, -53)>>,
    <<Dbl(0, 137, 32509, 203, 9386, -51), Dbl(0, 213, 12570, 1940, 6309, -53)>>,
    <<Dbl(0, 139, 3073, 26654, 3074, -51), Dbl(0, 210, 30062, 30039, 22539, -53)>>,
    <<Dbl(0, 140, 6406, 20336, 29532, -51), Dbl(0, 208, 12739, 26024, 13294, -53)>>,
    <<Dbl(0, 141, 9739, 14019, 23220, -51), Dbl(0, 205, 26161, 8013, 9477, -53)>>,
    <<Dbl(0, 142, 13072, 7702, 16910, -51), Dbl(0, 203, 4816, 13772, 15935, -53)>>,
    <<Dbl(0, 143, 16405, 1385, 10600, -51), Dbl(0, 200, 14267, 2167, 4030, -53)>>,
    <<Dbl(0, 144, 19737, 27836, 4288, -51), Dbl(0, 197, 21771, 16751, 10674, -53)>>,
    <<Dbl(0, 145, 23070, 21518, 30746, -51), Dbl(0, 194, 27356, 21672, 18623, -53)>>,
    <<Dbl(0, 146, 26403, 15201, 24434, -51), Dbl(0, 191, 31049, 32482, 13781, -53)>>,
    <<Dbl(0, 147, 29736, 8884, 18124, -51), Dbl(0, 189, 111, 17565, 25310, -53)>>,
    <<Dbl(0, 149, 301, 2567, 11814, -51), Dbl(0, 186, 105, 28940, 20224, -53)>>,
    <<Dbl(0, 150, 3633, 29018, 5502, -51), Dbl(0, 182, 31062, 5372, 15425, -53)>>,
    <<Dbl(0, 151, 6966, 22700, 31960, -51), Dbl(0, 179, 27474, 1467, 16717, -53)>>,
    <<Dbl(0, 152, 10299, 16383, 25648, -51), Dbl(0, 176, 22139, 23544, 16966, -53)>>,
    <<Dbl(0, 153, 13632, 10066, 19338, -51), Dbl(0, 173, 15089, 29341, 23309, -53)>>,
    <<Dbl(0, 154, 16965, 3749, 13028, -51), Dbl(0, 170, 6355, 26022, 18111, -53)>>,
    <<Dbl(0, 155, 20297, 30200, 6716, -51), Dbl(0, 166, 28737, 4336, 20276, -53)>>,
    <<Dbl(0, 156, 23630, 23883, 406, -51), Dbl(0, 163, 16730, 3847, 20524, -53)>>,
    <<Dbl(0, 157, 26963, 17565, 26864, -51), Dbl(0, 160, 3135, 14316, 23058, -53)>>,
    <<Dbl(0, 158, 30296, 11248, 20552, -51), Dbl(0, 156, 20754, 8152, 32722, -53)>>,
    <<Dbl(0, 160, 861, 4931, 14242, -51), Dbl(0, 153, 4084, 5627, 23531, -53)>>,
    <<Dbl(0, 161, 4193, 31382, 7930, -51), Dbl(0, 149, 18695, 9011, 22852, -53)>>,
    <<Dbl(0, 162, 7526, 25065, 1620, -51), Dbl(0, 145, 31854, 2244, 19331, -53)>>,
    <<Dbl(0, 163, 10859, 18747, 28078, -51), Dbl(0, 142, 10827, 16135, 25645, -53)>>,
    <<Dbl(0, 164, 14192, 12430, 21766, -51), Dbl(0, 138, 21186, 29721, 4270, -53)>>,
    <<Dbl(0, 165, 17525, 6113, 15456, -51), Dbl(0, 134, 30200, 2687, 20057, -53)>>,
    <<Dbl(0, 166, 20857, 32564, 9144, -51), Dbl(0, 131, 5135, 6098, 437, -53)>>,
    <<Dbl(0, 167, 24190, 26247, 2834, -51), Dbl(0, 254, 23129, 18095, 15151, -54)>>,
    <<Dbl(0, 168, 27523, 19929, 29292, -51), Dbl(0, 247, 747, 18763, 20563, -54)>>,
    <<Dbl(0, 169, 30856, 13612, 22980, -51), Dbl(0, 239, 8735, 1136, 21828, -54)>>,
    <<Dbl(0, 171, 1421, 7295, 16670, -51), Dbl(0, 231, 14399, 8208, 13101, -54)>>,
    <<Dbl(0, 172, 4754, 978, 10360, -51), Dbl(0, 223, 17816, 7227, 1977, -54)>>,
    <<Dbl(0, 173, 8086, 27429, 4048, -51), Dbl(0, 215, 19062, 20029, 10938, -54)>>,
    <<Dbl(0, 174, 11419, 21111, 30506, -51), Dbl(0, 207, 18215, 23991, 30762, -54)>>,
    <<Dbl(0, 175, 14752, 14794, 24194, -51), Dbl(0, 199, 15353, 16816, 31580, -54)>>,
    <<Dbl(0, 176, 18085, 8477, 17884, -51), Dbl(0, 191, 10554, 15775, 5727, -54)>>,
    <<Dbl(0, 177, 21418, 2160, 11574, -51), Dbl(0, 183, 3897, 24175, 17418, -54)>>,
    <<Dbl(0, 178, 24750, 28611, 5262, -51), Dbl(0, 174, 28230, 30597, 4134, -54)>>,
    <<Dbl(0, 179, 28083, 22293, 31720, -51), Dbl(0, 166, 18098, 8115, 25451, -54)>>,
    <<Dbl(0, 180, 31416, 15976, 25408, -51), Dbl(0, 158, 6348, 11829, 16697, -54)>>,
    <<Dbl(0, 182, 1981, 9659, 19098, -51), Dbl(0, 149, 25830, 14235, 4901, -54)>>,
    <<Dbl(0, 183, 5314, 3342, 12788, -51), Dbl(0, 141, 11090, 2744, 8658, -54)>>,
    <<Dbl(0, 184, 8646, 29793, 6476, -51), Dbl(0, 132, 27745, 11658, 22393, -54)>>,
    <<Dbl(0, 185, 11979, 23476, 166, -51), Dbl(0, 248, 20685, 13371, 21918, -55)>>,
    <<Dbl(0, 186, 15312, 17158, 26622, -51), Dbl(0, 231, 16233, 30420, 8744, -55)>>,
    <<Dbl(0, 186, 24497, 12867, 10831, -51), Dbl(0, 227, 4080, 9989, 22048, -55)>>,
    <<Dbl(0, 187, 18645, 10841, 20312, -51), Dbl(0, 214, 9534, 21601, 10334, -55)>>,
    <<Dbl(0, 187, 27064, 16305, 30842, -51), Dbl(0, 210, 8826, 13316, 26391, -55)>>,
    <<Dbl(0, 188, 21978, 4524, 14002, -51), Dbl(0, 197, 754, 21414, 23105, -55)>>,
    <<Dbl(0, 189, 25310, 30975, 7690, -51), Dbl(0, 179, 22829, 19027, 32737, -55)>>,
    <<Dbl(0, 190, 28643, 24658, 1380, -51), Dbl(0, 162, 10391, 22184, 12523, -55)>>,
    <<Dbl(0, 191, 31976, 18340, 27836, -51), Dbl(0, 144, 29145, 22801, 3806, -55)>>,
    <<Dbl(0, 193, 2541, 12023, 21526, -51), Dbl(0, 254, 27449, 23429, 30119, -56)>>,
    <<Dbl(0, 194, 5874, 5706, 15216, -51), Dbl(0, 219, 26901, 19614, 4437, -56)>>,
    <<Dbl(0, 195, 9206, 32157, 8904, -51), Dbl(0, 184, 24219, 1639, 21936, -56)>>,
    <<Dbl(0, 195, 22535, 5995, 10168, -51), Dbl(0, 171, 25319, 31072, 1923, -56)>>,
    <<Dbl(0, 195, 27798, 14005, 12126, -51), Dbl(0, 166, 21312, 1002, 18728, -56)>>,
    <<Dbl(0, 195, 31040, 19980, 14962, -51), Dbl(0, 163, 16203, 25173, 6606, -56)>>,
    <<Dbl(0, 195, 32143, 12690, 20764, -51), Dbl(0, 162, 13794, 25444, 24061, -56)>>,
    <<Dbl(0, 196, 12539, 25840, 2594, -51), Dbl(0, 149, 19742, 23252, 11552, -56)>>,
    <<Dbl(0, 197, 15872, 19522, 29050, -51), Dbl(0, 228, 27627, 16319, 127, -57)>>,
    <<Dbl(0, 198, 19205, 13205, 22740, -51), Dbl(0, 158, 13547, 17722, 11382, -57)>>,
    <<Dbl(0, 199, 22538, 6888, 16430, -51), Dbl(0, 175, 28626, 26901, 1960, -58)>>,
    <<Dbl(0, 200, 25871, 571, 10118, -51), Dbl(0, 139, 15499, 13238, 13353, -60)>>,
    <<Dbl(0, 201, 2029, 10376, 11544, -51), Dbl(0, 141, 6296, 26152, 23559, -105)>>,
    <<Dbl(0, 201, 29203, 27022, 3808, -51), Dbl(1, 212, 9663, 12123, 5031, -59)>>,
    <<Dbl(0, 202, 32536, 20704, 30264, -51), Dbl(1, 247, 4315, 17808, 29881, -58)>>,
    <<Dbl(0, 204, 3101, 14387, 23954, -51), Dbl(1, 194, 699, 29268, 9999, -57)>>,
    <<Dbl(0, 205, 6434, 8070, 17644, -51), Dbl(1, 132, 6871, 1529, 6555, -56)>>,
    <<Dbl(0, 206, 9767, 1753, 11332, -51), Dbl(1, 167, 12108, 13383, 23393, -56)>>,
    <<Dbl(0, 207, 13099, 28204, 5022, -51), Dbl(1, 202, 15720, 20796, 31775, -56)>>,
    <<Dbl(0, 208, 16432, 21886, 31478, -51), Dbl(1, 237, 17366, 26532, 2717, -56)>>,
    <<Dbl(0, 209, 19765, 15569, 25168, -51), Dbl(1, 136, 8353, 9837, 4422, -55)>>,
    <<Dbl(0, 210, 23098, 9252, 18858, -51), Dbl(1, 153, 23084, 5851, 23307, -55)>>,
    <<Dbl(0, 211, 26431, 2935, 12546, -51), Dbl(1, 171, 3554, 19896, 1102, -55)>>,
    <<Dbl(0, 212, 29763, 29386, 6236, -51), Dbl(1, 188, 15131, 19511, 28007, -55)>>,
    <<Dbl(0, 214, 328, 23068, 32692, -51), Dbl(1, 205, 24878, 21141, 9358, -55)>>,
    <<Dbl(0, 215, 3661, 16751, 26382, -51), Dbl(1, 222, 32627, 26226, 29446, -55)>>,
    <<Dbl(0, 216, 6994, 10434, 20072, -51), Dbl(1, 240, 5443, 22842, 18039, -55)>>,
    <<Dbl(0, 217, 10327, 4117, 13760, -51), Dbl(1, 128, 20731, 26427, 7649, -54)>>,
    <<Dbl(0, 218, 13659, 30568, 7450, -51), Dbl(1, 137, 4724, 24850, 1581, -54)>>,
    <<Dbl(0, 219, 16992, 24251, 1138, -51), Dbl(1, 145, 20154, 1920, 4042, -54)>>,
    <<Dbl(0, 220, 20325, 17933, 27596, -51), Dbl(1, 154, 1401, 14950, 743, -54)>>,
    <<Dbl(0, 221, 23658, 11616, 21286, -51), Dbl(1, 162, 13921, 3909, 3697, -54)>>,
    <<Dbl(0, 222, 26991, 5299, 14974, -51), Dbl(1, 170, 24863, 21594, 4661, -54)>>,
    <<Dbl(0, 223, 30323, 31750, 8664, -51), Dbl(1, 179, 1380, 5043, 16925, -54)>>,
    <<Dbl(0, 225, 888, 25433, 2352, -51), Dbl(1, 187, 8926, 5699, 1029, -54)>>,
    <<Dbl(0, 226, 4221, 19115, 28810, -51), Dbl(1, 195, 14653, 26346, 27600, -54)>>,
    <<Dbl(0, 227, 7554, 12798, 22500, -51), Dbl(1, 203, 18483, 21893, 13909, -54)>>,
    <<Dbl(0, 228, 10887, 6481, 16188, -51), Dbl(1, 211, 20336, 31208, 10039, -54)>>,
    <<Dbl(0, 229, 14220, 164, 9878, -51), Dbl(1, 219, 20135, 14049, 11211, -54)>>,
    <<Dbl(0, 230, 17552, 26615, 3566, -51), Dbl(1, 227, 17801, 15662, 9597, -54)>>,
    <<Dbl(0, 231, 20885, 20297, 30024, -51), Dbl(1, 235, 13258, 3694, 16456, -54)>>,
    <<Dbl(0, 232, 24218, 13980, 23714, -51), Dbl(1, 243, 6429, 14, 14084, -54)>>,
    <<Dbl(0, 233, 27551, 7663, 17402, -51), Dbl(1, 250, 30006, 15916, 27273, -54)>>,
    <<Dbl(0, 234, 30884, 1346, 11092, -51), Dbl(1, 129, 9189, 26428, 22403, -53)>>,
    <<Dbl(0, 236, 1448, 27797, 4780, -51), Dbl(1, 133, 2121, 2438, 6543, -53)>>,
    <<Dbl(0, 237, 4781, 21479, 31238, -51), Dbl(1, 136, 26528, 9883, 29514, -53)>>,
    <<Dbl(0, 238, 8114, 15162, 24928, -51), Dbl(1, 140, 16839, 4136, 8638, -53)>>,
    <<Dbl(0, 239, 11447, 8845, 18616, -51), Dbl(1, 144, 5785, 19000, 12330, -53)>>,
    <<Dbl(0, 240, 14780, 2528, 12306, -51), Dbl(1, 147, 26100, 3225, 6096, -53)>>,
    <<Dbl(0, 241, 18112, 28979, 5994, -51), Dbl(1, 151, 12211, 17456, 26882, -53)>>,
    <<Dbl(0, 242, 21445, 22661, 32452, -51), Dbl(1, 154, 29621, 5203, 28935, -53)>>,
    <<Dbl(0, 243, 24778, 16344, 26142, -51), Dbl(1, 158, 12758, 22550, 20235, -53)>>,
    <<Dbl(0, 244, 28111, 10027, 19830, -51), Dbl(1, 161, 27126, 9113, 27661, -53)>>,
    <<Dbl(0, 245, 31444, 3710, 13520, -51), Dbl(1, 165, 7154, 17747, 18644, -53)>>,
    <<Dbl(0, 247, 2008, 30161, 7208, -51), Dbl(1, 168, 18346, 18259, 5441, -53)>>,
    <<Dbl(0, 248, 5341, 23844, 898, -51), Dbl(1, 171, 27901, 28801, 1357, -53)>>,
    <<Dbl(0, 249, 8674, 17526, 27356, -51), Dbl(1, 175, 3020, 17881, 22224, -53)>>,
    <<Dbl(0, 250, 12007, 11209, 21044, -51), Dbl(1, 178, 9207, 2979, 31947, -53)>>,
    <<Dbl(0, 251, 15340, 4892, 14734, -51), Dbl(1, 181, 13662, 18082, 25628, -53)>>,
    <<Dbl(0, 252, 18672, 31343, 8422, -51), Dbl(1, 184, 16356, 15681, 17885, -53)>>,
    <<Dbl(0, 253, 22005, 25026, 2112, -51), Dbl(1, 187, 17258, 30907, 31881, -53)>>,
    <<Dbl(0, 254, 25338, 18708, 28570, -51), Dbl(1, 190, 16340, 17984, 20496, -53)>>,
    <<Dbl(0, 255, 28671, 12391, 22258, -51), Dbl(1, 193, 13572, 14350, 11874, -53)>>,
    <<Dbl(0, 128, 16002, 3037, 7974, -50), Dbl(1, 196, 8926, 9868, 17747, -53)>>,
    <<Dbl(0, 129, 1284, 16262, 21202, -50), Dbl(1, 199, 2374, 12637, 29471, -53)>>,
    <<Dbl(0, 129, 19334, 29488, 1663, -50), Dbl(1, 201, 26657, 16494, 908, -53)>>,
    <<Dbl(0, 130, 4617, 9945, 14892, -50), Dbl(1, 204, 16213, 1273, 12000, -53)>>,
    <<Dbl(0, 130, 22667, 23170, 28120, -50), Dbl(1, 207, 3782, 31375, 20777, -53)>>,
    <<Dbl(0, 131, 7950, 3628, 8581, -50), Dbl(1, 209, 22109, 26640, 20437, -53)>>,
    <<Dbl(0, 131, 26000, 16853, 21809, -50), Dbl(1, 212, 5632, 24739, 9169, -53)>>,
    <<Dbl(0, 132, 11282, 30079, 2270, -50), Dbl(1, 214, 19863, 17574, 32584, -53)>>,
    <<Dbl(0, 132, 29333, 10536, 15499, -50), Dbl(1, 216, 32010, 17055, 1362, -53)>>,
    <<Dbl(0, 133, 14615, 23761, 28727, -50), Dbl(1, 219, 9282, 22552, 2836, -53)>>,
    <<Dbl(0, 133, 32666, 4219, 9188, -50), Dbl(1, 221, 17193, 21127, 22898, -53)>>,
    <<Dbl(0, 134, 17948, 17444, 22417, -50), Dbl(1, 223, 22953, 20517, 26285, -53)>>,
    <<Dbl(0, 135, 3230, 30670, 2877, -50), Dbl(1, 225, 26541, 16576, 0, -53)>>,
    <<Dbl(0, 135, 21281, 11127, 16106, -50), Dbl(1, 227, 27936, 26246, 23315, -53)>>,
    <<Dbl(0, 136, 6563, 24352, 29334, -50), Dbl(1, 229, 27119, 22228, 1865, -53)>>,
    <<Dbl(0, 136, 24614, 4810, 9795, -50), Dbl(1, 231, 24070, 31468, 14288, -53)>>,
    <<Dbl(0, 137, 9896, 18035, 23024, -50), Dbl(1, 233, 18772, 4280, 24230, -53)>>,
    <<Dbl(0, 137, 27946, 31261, 3484, -50), Dbl(1, 235, 11205, 11130, 4581, -53)>>,
    <<Dbl(0, 138, 13229, 11718, 16713, -50), Dbl(1, 237, 1353, 13431, 13411, -53)>>,
    <<Dbl(0, 138, 31279, 24943, 29941, -50), Dbl(1, 238, 21967, 27555, 23270, -53)>>,
    <<Dbl(0, 139, 16562, 5401, 10402, -50), Dbl(1, 240, 7496, 26686, 26616, -53)>>,
    <<Dbl(0, 140, 1844, 18626, 23631, -50), Dbl(1, 241, 23461, 6510, 22498, -53)>>,
    <<Dbl(0, 140, 19894, 31852, 4091, -50), Dbl(1, 243, 4310, 18130, 14149, -53)>>,
    <<Dbl(0, 141, 5177, 12309, 17320, -50), Dbl(1, 244, 15567, 4366, 16037, -53)>>,
    <<Dbl(0, 141, 23227, 25534, 30548, -50), Dbl(1, 245, 24449, 29266, 3446, -53)>>,
    <<Dbl(0, 142, 8510, 5992, 11009, -50), Dbl(1, 246, 30946, 16085, 32737, -53)>>,
    <<Dbl(0, 142, 26560, 19217, 24238, -50), Dbl(1, 248, 2277, 9556, 6687, -53)>>,
    <<Dbl(0, 143, 11842, 32443, 4698, -50), Dbl(1, 249, 3967, 12153, 1323, -53)>>,
    <<Dbl(0, 143, 29893, 12900, 17927, -50), Dbl(1, 250, 3238, 16973, 6225, -53)>>,
    <<Dbl(0, 144, 15175, 26125, 31155, -50), Dbl(1, 251, 81, 7832, 27552, -53)>>,
    <<Dbl(0, 145, 458, 6583, 11616, -50), Dbl(1, 251, 27254, 24895, 28555, -53)>>,
    <<Dbl(0, 145, 18508, 19808, 24845, -50), Dbl(1, 252, 19215, 919, 1570, -53)>>,
    <<Dbl(0, 146, 3791, 266, 5305, -50), Dbl(1, 253, 8722, 23474, 6845, -53)>>,
    <<Dbl(0, 146, 21841, 13491, 18534, -50), Dbl(1, 253, 28539, 7339, 13591, -53)>>,
    <<Dbl(0, 147, 7123, 26716, 31762, -50), Dbl(1, 254, 13122, 22243, 1317, -53)>>,
    <<Dbl(0, 147, 25174, 7174, 12223, -50), Dbl(1, 254, 28003, 30776, 25920, -53)>>,
    <<Dbl(0, 148, 10456, 20399, 25452, -50), Dbl(1, 255, 7642, 19517, 20600, -53)>>,
    <<Dbl(0, 148, 28507, 857, 5912, -50), Dbl(1, 255, 17570, 31838, 19236, -53)>>,
    <<Dbl(0, 149, 13789, 14082, 19141, -50), Dbl(1, 255, 25018, 4104, 15389, -53)>>,
    <<Dbl(0, 149, 31839, 27307, 32369, -50), Dbl(1, 255, 29981, 27844, 13622, -53)>>,
    <<Dbl(0, 150, 17122, 7765, 12830, -50), Dbl(1, 255, 32460, 22093, 10737, -53)>>,
    <<Dbl(0, 151, 2404, 20990, 26059, -50), Dbl(1, 255, 32453, 28318, 5010, -53)>>,
    <<Dbl(0, 151, 20455, 1448, 6519, -50), Dbl(1, 255, 29961, 13817, 522, -53)>>,
    <<Dbl(0, 152, 5737, 14673, 19748, -50), Dbl(1, 255, 24984, 2791, 6513, -53)>>,
    <<Dbl(0, 152, 23787, 27899, 208, -50), Dbl(1, 255, 17523, 10801, 31774, -53)>>,
    <<Dbl(0, 153, 9070, 8356, 13437, -50), Dbl(1, 255, 7581, 11988, 8587, -53)>>,
    <<Dbl(0, 153, 27120, 21581, 26666, -50), Dbl(1, 254, 27929, 4581, 6819, -53)>>,
    <<Dbl(0, 154, 12403, 2039, 7126, -50), Dbl(1, 254, 13034, 10875, 17477, -53)>>,
    <<Dbl(0, 154, 30453, 15264, 20355, -50), Dbl(1, 253, 28437, 11657, 26889, -53)>>,
    <<Dbl(0, 155, 15735, 28490, 815, -50), Dbl(1, 253, 8607, 11699, 21432, -53)>>,
    <<Dbl(0, 156, 1018, 8947, 14044, -50), Dbl(1, 252, 19086, 6939, 21495, -53)>>,
    <<Dbl(0, 156, 19068, 22172, 27273, -50), Dbl(1, 251, 27112, 17194, 14125, -53)>>,
    <<Dbl(0, 157, 4351, 2630, 7733, -50), Dbl(1, 250, 32693, 20558, 14255, -53)>> }

\* math.cos of the C library at the arguments the calls below pass to it
\* (binary64 results, <<argument, result>>).
CosTable ==
  { <<Dbl(1, 201, 2029, 10376, 11544, -52), Dbl(0, 141, 6296, 26152, 23559, -106)>>,
    <<Dbl(1, 178, 23649, 5582, 17543, -52), Dbl(0, 177, 26729, 31766, 29580, -55)>>,
    <<Dbl(1, 148, 18429, 18771, 22365, -52), Dbl(0, 204, 5227, 8492, 2653, -54)>>,
    <<Dbl(1, 201, 2029, 10376, 11544, -53), Dbl(0, 181, 633, 19710, 15309, -53)>>,
    <<Dbl(1, 209, 32702, 31954, 22252, -54), Dbl(0, 234, 25145, 15612, 29224, -53)>>,
    <<Dbl(1, 209, 13112, 12481, 28870, -54), Dbl(0, 234, 29046, 3164, 26775, -53)>>,
    <<Dbl(1, 209, 11073, 18445, 24347, -54), Dbl(0, 234, 29451, 14294, 18256, -53)>>,
    <<Dbl(1, 205, 32598, 8822, 5393, -54), Dbl(0, 235, 18295, 11903, 13652, -53)>>,
    <<Dbl(1, 205, 10359, 12688, 1043, -54), Dbl(0, 235, 22642, 19124, 10614, -53)>>,
    <<Dbl(1, 178, 23649, 5582, 17543, -55), Dbl(0, 252, 3630, 6402, 7191, -53)>>,
    <<Dbl(1, 202, 5037, 14502, 5044, -59), Dbl(0, 255, 32129, 15558, 15994, -53)>>,
    <<Dbl(1, 173, 21536, 4084, 1166, -60), Dbl(0, 255, 32650, 6558, 10687, -53)>>,
    <<Dbl(1, 172, 12885, 19494, 22598, -60), Dbl(0, 255, 32651, 29777, 31546, -53)>>,
    <<Zero, Dbl(0, 128, 0, 0, 0, -52)>>,
    <<Dbl(0, 233, 7673, 22613, 14898, -62), Dbl(0, 255, 32754, 23566, 21102, -53)>>,
    <<Dbl(0, 141, 615, 10599, 11418, -58), Dbl(0, 255, 31525, 4495, 29842, -53)>>,
    <<Dbl(0, 141, 615, 10599, 11418, -57), Dbl(0, 255, 27796, 30051, 22069, -53)>>,
    <<Dbl(0, 211, 17306, 32283, 743, -57), Dbl(0, 255, 21584, 14563, 26360, -53)>>,
    <<Dbl(0, 141, 615, 10599, 11418, -56), Dbl(0, 255, 12889, 18354, 18939, -53)>>,
    <<Dbl(0, 176, 8961, 5057, 6080, -56), Dbl(0, 255, 1714, 27546, 4986, -53)>>,
    <<Dbl(0, 211, 17306, 32283, 743, -56), Dbl(0, 254, 20831, 19571, 18064, -53)>>,
    <<Dbl(0, 246, 25652, 26740, 28174, -56), Dbl(0, 254, 4707, 28678, 16829, -53)>>,
    <<Dbl(0, 141, 615, 10599, 11418, -55), Dbl(0, 253, 18884, 14818, 6989, -53)>>,
    <<Dbl(0, 158, 21172, 7828, 8749, -55), Dbl(0, 252, 30598, 27438, 28465, -53)>>,
    <<Dbl(0, 176, 8961, 5057, 6080, -55), Dbl(0, 252, 7089, 8824, 8198, -53)>>,
    <<Dbl(0, 178, 23649, 5582, 17543, -55), Dbl(0, 252, 3630, 6402, 7191, -53)>>,
    <<Dbl(0, 193, 29518, 2286, 3412, -55), Dbl(0, 251, 13898, 23409, 3404, -53)>>,
    <<Dbl(0, 211, 17306, 32283, 743, -55), Dbl(0, 250, 18266, 28335, 16674, -53)>>,
    <<Dbl(0, 229, 5095, 29511, 30842, -55), Dbl(0, 249, 20202, 4450, 6163, -53)>>,
    <<Dbl(0, 246, 25652, 26740, 28174, -55), Dbl(0, 248, 19713, 21758, 26058, -53)>>,
    <<Dbl(0, 132, 6720, 28368, 29136, -54), Dbl(0, 247, 16811, 9961, 6597, -53)>>,
    <<Dbl(0, 141, 615, 10599, 11418, -54), Dbl(0, 246, 11505, 20499, 26475, -53)>>,
    <<Dbl(0, 149, 27277, 25597, 26468, -54), Dbl(0, 245, 3807, 29848, 29976, -53)>>,
    <<Dbl(0, 158, 21172, 7828, 8749, -54), Dbl(0, 243, 26498, 4941, 5653, -53)>>,
    <<Dbl(0, 167, 15066, 22826, 23799, -54), Dbl(0, 242, 14053, 1355, 5016, -53)>>,
    <<Dbl(0, 176, 8961, 5057, 6080, -54), Dbl(0, 240, 32021, 32120, 2362, -53)>>,
    <<Dbl(0, 185, 2855, 20055, 21130, -54), Dbl(0, 239, 14883, 2049, 22927, -53)>>,
    <<Dbl(0, 193, 29518, 2286, 3412, -54), Dbl(0, 237, 28187, 2517, 16337, -53)>>,
    <<Dbl(0, 202, 23412, 17284, 18461, -54), Dbl(0, 236, 6413, 16401, 973, -53)>>,
    <<Dbl(0, 209, 12347, 3414, 16619, -54), Dbl(0, 234, 29198, 8369, 14165, -53)>>,
    <<Dbl(0, 209, 13369, 11022, 4810, -54), Dbl(0, 234, 28995, 95, 22794, -53)>>,
    <<Dbl(0, 209, 32702, 31954, 22252, -54), Dbl(0, 234, 25145, 15612, 29224, -53)>>,
    <<Dbl(0, 211, 17306, 32283, 743, -54), Dbl(0, 234, 15114, 16235, 21894, -53)>>,
    <<Dbl(0, 220, 11201, 14513, 15793, -54), Dbl(0, 232, 21538, 29593, 22080, -53)>>,
    <<Dbl(0, 229, 5095, 29511, 30842, -54), Dbl(0, 230, 25704, 7848, 21735, -53)>>,
    <<Dbl(0, 237, 31758, 11742, 13124, -54), Dbl(0, 228, 27628, 22613, 17413, -53)>>,
    <<Dbl(0, 246, 25652, 26740, 28174, -54), Dbl(0, 226, 27331, 3419, 28607, -53)>>,
    <<Dbl(0, 255, 19547, 8971, 10455, -54), Dbl(0, 224, 24830, 32446, 31362, -53)>>,
    <<Dbl(0, 132, 6720, 28368, 29136, -53), Dbl(0, 222, 20148, 16652, 10077, -53)>>,
    <<Dbl(0, 136, 20052, 3100, 3893, -53), Dbl(0, 220, 13304, 15255, 31021, -53)>>,
    <<Dbl(0, 141, 615, 10599, 11418, -53), Dbl(0, 218, 4320, 10162, 11793, -53)>>,
    <<Dbl(0, 145, 13946, 18098, 18943, -53), Dbl(0, 215, 25986, 4056, 7874, -53)>>,
    <<Dbl(0, 149, 27277, 25597, 26468, -53), Dbl(0, 213, 12788, 20188, 2507, -53)>>,
    <<Dbl(0, 154, 7841, 329, 1224, -53), Dbl(0, 210, 30287, 3849, 21161, -53)>>,
    <<Dbl(0, 158, 21172, 7828, 8749, -53), Dbl(0, 208, 12969, 18755, 15684, -53)>>,
    <<Dbl(0, 163, 1735, 15327, 16274, -53), Dbl(0, 205, 26396, 17434, 11857, -53)>>,
    <<Dbl(0, 167, 15066, 22826, 23799, -53), Dbl(0, 203, 5057, 4830, 31088, -53)>>,
    <<Dbl(0, 171, 28397, 30325, 31324, -53), Dbl(0, 200, 14513, 5293, 17929, -53)>>,
    <<Dbl(0, 176, 8961, 5057, 6080, -53), Dbl(0, 197, 22022, 29556, 5183, -53)>>,
    <<Dbl(0, 180, 22292, 12556, 13605, -53), Dbl(0, 194, 27613, 8946, 27477, -53)>>,
    <<Dbl(0, 185, 2855, 20055, 21130, -53), Dbl(0, 191, 31311, 24502, 15198, -53)>>,
    <<Dbl(0, 189, 16186, 27554, 28655, -53), Dbl(0, 189, 378, 11789, 31743, -53)>>,
    <<Dbl(0, 193, 29518, 2286, 3412, -53), Dbl(0, 186, 377, 22778, 4717, -53)>>,
    <<Dbl(0, 198, 10081, 9785, 10937, -53), Dbl(0, 182, 31338, 28952, 2307, -53)>>,
    <<Dbl(0, 201, 2029, 10376, 11544, -53), Dbl(0, 181, 633, 19710, 15309, -53)>>,
    <<Dbl(0, 202, 23412, 17284, 18461, -53), Dbl(0, 179, 27755, 19334, 8943, -53)>>,
    <<Dbl(0, 207, 3975, 24783, 25986, -53), Dbl(0, 176, 22426, 196, 22179, -53)>>,
    <<Dbl(0, 211, 17306, 32283, 743, -53), Dbl(0, 173, 15380, 27535, 14875, -53)>>,
    <<Dbl(0, 215, 30638, 7014, 8268, -53), Dbl(0, 170, 6651, 10164, 27631, -53)>>,
    <<Dbl(0, 220, 11201, 14513, 15793, -53), Dbl(0, 166, 29037, 4326, 1173, -53)>>,
    <<Dbl(0, 224, 24532, 22012, 23317, -53), Dbl(0, 163, 17034, 16771, 6996, -53)>>,
    <<Dbl(0, 229, 5095, 29511, 30842, -53), Dbl(0, 160, 3444, 4450, 27272, -53)>>,
    <<Dbl(0, 233, 18427, 4243, 5599, -53), Dbl(0, 156, 21067, 5268, 7978, -53)>>,
    <<Dbl(0, 237, 31758, 11742, 13124, -53), Dbl(0, 153, 4401, 6685, 24455, -53)>>,
    <<Dbl(0, 242, 12321, 19241, 20649, -53), Dbl(0, 149, 19016, 10934, 5499, -53)>>,
    <<Dbl(0, 246, 25652, 26740, 28174, -53), Dbl(0, 145, 32179, 1914, 2171, -53)>>,
    <<Dbl(0, 251, 6216, 1472, 2930, -53), Dbl(0, 142, 11156, 10396, 21513, -53)>>,
    <<Dbl(0, 255, 19547, 8971, 10455, -53), Dbl(0, 138, 21519, 15380, 18232, -53)>>,
    <<Dbl(0, 130, 55, 8235, 8990, -52), Dbl(0, 134, 30536, 9284, 14901, -53)>>,
    <<Dbl(0, 132, 6720, 28368, 29136, -52), Dbl(0, 131, 5474, 30367, 26304, -53)>>,
    <<Dbl(0, 134, 13386, 15734, 16515, -52), Dbl(0, 254, 23815, 29847, 8611, -54)>>,
    <<Dbl(0, 136, 20052, 3100, 3893, -52), Dbl(0, 247, 1440, 19831, 6540, -54)>>,
    <<Dbl(0, 138, 26717, 23233, 24040, -52), Dbl(0, 239, 9434, 17558, 24774, -54)>>,
    <<Dbl(0, 141, 615, 10599, 11418, -52), Dbl(0, 231, 15105, 424, 30995, -54)>>,
    <<Dbl(0, 143, 7280, 30732, 31564, -52), Dbl(0, 223, 18528, 1153, 6680, -54)>>,
    <<Dbl(0, 145, 13946, 18098, 18943, -52), Dbl(0, 215, 19780, 8753, 14738, -54)>>,
    <<Dbl(0, 147, 20612, 5464, 6321, -52), Dbl(0, 207, 18939, 545, 22464, -54)>>,
    <<Dbl(0, 148, 18429, 18771, 22365, -52), Dbl(0, 204, 5227, 8492, 2653, -54)>>,
    <<Dbl(0, 149, 27277, 25597, 26468, -52), Dbl(0, 199, 16082, 6945, 11326, -54)>>,
    <<Dbl(0, 152, 1175, 12963, 13846, -52), Dbl(0, 191, 11288, 12402, 20498, -54)>>,
    <<Dbl(0, 154, 7841, 329, 1224, -52), Dbl(0, 183, 4636, 20176, 302, -54)>>,
    <<Dbl(0, 156, 14506, 20462, 21371, -52), Dbl(0, 174, 28974, 18796, 7361, -54)>>,
    <<Dbl(0, 158, 21172, 7828, 8749, -52), Dbl(0, 166, 18846, 14060, 27964, -54)>>,
    <<Dbl(0, 160, 27837, 27961, 28896, -52), Dbl(0, 158, 7100, 28255, 26960, -54)>>,
    <<Dbl(0, 163, 1735, 15327, 16274, -52), Dbl(0, 149, 26587, 1068, 443, -54)>>,
    <<Dbl(0, 165, 8401, 2693, 3652, -52), Dbl(0, 141, 11850, 18173, 6958, -54)>>,
    <<Dbl(0, 167, 15066, 22826, 23799, -52), Dbl(0, 132, 28509, 15531, 21146, -54)>>,
    <<Dbl(0, 169, 21732, 10192, 11177, -52), Dbl(0, 248, 22220, 15934, 21353, -55)>>,
    <<Dbl(0, 171, 28397, 30325, 31324, -52), Dbl(0, 231, 17775, 12894, 29627, -55)>>,
    <<Dbl(0, 174, 2295, 17691, 18702, -52), Dbl(0, 214, 11082, 1788, 6187, -55)>>,
    <<Dbl(0, 176, 8961, 5057, 6080, -52), Dbl(0, 197, 2307, 17056, 26666, -55)>>,
    <<Dbl(0, 178, 15626, 25190, 26227, -52), Dbl(0, 179, 24387, 15047, 6943, -55)>>,
    <<Dbl(0, 178, 23649, 5582, 17543, -52), Dbl(0, 177, 26729, 31766, 29580, -55)>>,
    <<Dbl(0, 180, 22292, 12556, 13605, -52), Dbl(0, 162, 11954, 3453, 29798, -55)>>,
    <<Dbl(0, 182, 28957, 32690, 984, -52), Dbl(0, 144, 30712, 6917, 32335, -55)>>,
    <<Dbl(0, 185, 2855, 20055, 21130, -52), Dbl(0, 254, 30589, 32473, 1444, -56)>>,
    <<Dbl(0, 187, 9521, 7421, 8509, -52), Dbl(0, 219, 30048, 6206, 32303, -56)>>,
    <<Dbl(0, 189, 16186, 27554, 28655, -52), Dbl(0, 184, 27371, 765, 8837, -56)>>,
    <<Dbl(0, 191, 22852, 14920, 16033, -52), Dbl(0, 149, 22899, 4305, 15313, -56)>>,
    <<Dbl(0, 193, 29518, 2286, 3412, -52), Dbl(0, 229, 1179, 12055, 12946, -57)>>,
    <<Dbl(0, 196, 3415, 22419, 23558, -52), Dbl(0, 158, 19872, 18491, 26802, -57)>>,
    <<Dbl(0, 198, 10081, 9785, 10937, -52), Dbl(0, 176, 8515, 13979, 29557, -58)>>,
    <<Dbl(0, 200, 16746, 29918, 31083, -52), Dbl(0, 141, 601, 1961, 19568, -60)>>,
    <<Dbl(0, 201, 2029, 10376, 11544, -52), Dbl(0, 141, 6296, 26152, 23559, -106)>>,
    <<Dbl(0, 202, 23412, 17284, 18461, -52), Dbl(1, 211, 17114, 14024, 1600, -59)>>,
    <<Dbl(0, 204, 30078, 4650, 5840, -52), Dbl(1, 246, 24429, 25114, 21832, -58)>>,
    <<Dbl(0, 207, 3975, 24783, 25986, -52), Dbl(1, 193, 27145, 7420, 2228, -57)>>,
    <<Dbl(0, 209, 10641, 12149, 13365, -52), Dbl(1, 132, 3712, 24934, 21201, -56)>>,
    <<Dbl(0, 211, 17306, 32283, 743, -52), Dbl(1, 167, 8954, 3481, 8443, -56)>>,
    <<Dbl(0, 213, 23972, 19648, 20889, -52), Dbl(1, 202, 12571, 8214, 15032, -56)>>,
    <<Dbl(0, 215, 30638, 7014, 8268, -52), Dbl(1, 237, 14223, 9081, 20149, -56)>>,
    <<Dbl(0, 218, 4535, 27147, 28414, -52), Dbl(1, 136, 6784, 30323, 18364, -55)>>,
    <<Dbl(0, 220, 11201, 14513, 15793, -52), Dbl(1, 153, 21519, 21626, 16550, -55)>>,
    <<Dbl(0, 222, 17867, 1879, 3171, -52), Dbl(1, 171, 1994, 13382, 15127, -55)>>,
    <<Dbl(0, 224, 24532, 22012, 23317, -52), Dbl(1, 188, 13576, 5859, 7747, -55)>>,
    <<Dbl(0, 226, 31198, 9378, 10696, -52), Dbl(1, 205, 23328, 15452, 16673, -55)>>,
    <<Dbl(0, 229, 5095, 29511, 30842, -52), Dbl(1, 222, 31083, 10785, 30785, -55)>>,
    <<Dbl(0, 231, 11761, 16877, 18221, -52), Dbl(1, 240, 3905, 12646, 565, -55)>>,
    <<Dbl(0, 233, 18427, 4243, 5599, -52), Dbl(1, 128, 19965, 31419, 18922, -54)>>,
    <<Dbl(0, 235, 25092, 24376, 25745, -52), Dbl(1, 137, 3962, 14601, 9180, -54)>>,
    <<Dbl(0, 237, 31758, 11742, 13124, -52), Dbl(1, 145, 19395, 16600, 6496, -54)>>,
    <<Dbl(0, 240, 5655, 31876, 502, -52), Dbl(1, 154, 646, 29156, 12383, -54)>>,
    <<Dbl(0, 242, 12321, 19241, 20649, -52), Dbl(1, 162, 13170, 24968, 15971, -54)>>,
    <<Dbl(0, 244, 18987, 6607, 8027, -52), Dbl(1, 170, 24117, 24024, 13279, -54)>>,
    <<Dbl(0, 246, 25652, 26740, 28174, -52), Dbl(1, 179, 638, 28855, 16618, -54)>>,
    <<Dbl(0, 248, 32318, 14106, 15552, -52), Dbl(1, 187, 8189, 25322, 13576, -54)>>,
    <<Dbl(0, 251, 6216, 1472, 2930, -52), Dbl(1, 195, 13922, 16163, 31887, -54)>>,
    <<Dbl(0, 253, 12881, 21605, 23077, -52), Dbl(1, 203, 17757, 21773, 7618, -54)>>,
    <<Dbl(0, 255, 19547, 8971, 10455, -52), Dbl(1, 211, 19616, 15432, 6223, -54)>>,
    <<Dbl(0, 128, 29490, 14552, 15301, -51), Dbl(1, 219, 19420, 22381, 2586, -54)>>,
    <<Dbl(0, 130, 55, 8235, 8990, -51), Dbl(1, 227, 17092, 22273, 31728, -54)>>,
    <<Dbl(0, 131, 3388, 1918, 2679, -51), Dbl(1, 235, 12555, 15468, 14787, -54)>>,
    <<Dbl(0, 132, 6720, 28368, 29136, -51), Dbl(1, 243, 5732, 23773, 6527, -54)>>,
    <<Dbl(0, 133, 10053, 22051, 22826, -51), Dbl(1, 250, 29316, 25653, 5201, -54)>>,
    <<Dbl(0, 134, 13386, 15734, 16515, -51), Dbl(1, 129, 8848, 11250, 2824, -53)>>,
    <<Dbl(0, 135, 16719, 9417, 10204, -51), Dbl(1, 133, 1783, 3296, 13225, -53)>>,
    <<Dbl(0, 136, 20052, 3100, 3893, -51), Dbl(1, 136, 26193, 30060, 19204, -53)>>,
    <<Dbl(0, 137, 23384, 29550, 30350, -51), Dbl(1, 140, 16508, 14110, 8410, -53)>>,
    <<Dbl(0, 138, 26717, 23233, 24040, -51), Dbl(1, 144, 5458, 21982, 22521, -53)>>,
    <<Dbl(0, 139, 30050, 16916, 17729, -51), Dbl(1, 147, 25777, 2390, 1868, -53)>>,
    <<Dbl(0, 141, 615, 10599, 11418, -51), Dbl(1, 151, 11892, 15940, 25743, -53)>>,
    <<Dbl(0, 142, 3948, 4282, 5107, -51), Dbl(1, 154, 29306, 6104, 27481, -53)>>,
    <<Dbl(0, 143, 7280, 30732, 31564, -51), Dbl(1, 158, 12447, 28926, 29630, -53)>>,
    <<Dbl(0, 144, 10613, 24415, 25254, -51), Dbl(1, 161, 26819, 23983, 11174, -53)>>,
    <<Dbl(0, 145, 13946, 18098, 18943, -51), Dbl(1, 165, 6852, 11318, 26157, -53)>>,
    <<Dbl(0, 146, 17279, 11781, 12632, -51), Dbl(1, 168, 18048, 26234, 13513, -53)>>,
    <<Dbl(0, 147, 20612, 5464, 6321, -51), Dbl(1, 171, 27608, 21303, 15770, -53)>>,
    <<Dbl(0, 148, 23944, 31915, 10, -51), Dbl(1, 175, 2731, 30526, 17168, -53)>>,
    <<Dbl(0, 149, 27277, 25597, 26468, -51), Dbl(1, 178, 8923, 5801, 20676, -53)>>,
    <<Dbl(0, 150, 30610, 19280, 20157, -51), Dbl(1, 181, 13383, 13838, 457, -53)>>,
    <<Dbl(0, 152, 1175, 12963, 13846, -51), Dbl(1, 184, 16082, 7080, 21755, -53)>>,
    <<Dbl(0, 153, 4508, 6646, 7535, -51), Dbl(1, 187, 16989, 20614, 948, -53)>>,
    <<Dbl(0, 154, 7841, 329, 1224, -51), Dbl(1, 190, 16076, 8612, 20433, -53)>>,
    <<Dbl(0, 155, 11173, 26779, 27682, -51), Dbl(1, 193, 13313, 8466, 15872, -53)>>,
    <<Dbl(0, 156, 14506, 20462, 21371, -51), Dbl(1, 196, 8672, 9989, 12649, -53)>>,
    <<Dbl(0, 157, 17839, 14145, 15060, -51), Dbl(1, 199, 2125, 21229, 24132, -53)>>,
    <<Dbl(0, 158, 21172, 7828, 8749, -51), Dbl(1, 201, 26414, 3204, 2223, -53)>>,
    <<Dbl(0, 159, 24505, 1511, 2438, -51), Dbl(1, 204, 15975, 1233, 1469, -53)>>,
    <<Dbl(0, 160, 27837, 27961, 28896, -51), Dbl(1, 207, 3550, 14127, 29863, -53)>>,
    <<Dbl(0, 161, 31170, 21644, 22585, -51), Dbl(1, 209, 21882, 27211, 9802, -53)>>,
    <<Dbl(0, 163, 1735, 15327, 16274, -51), Dbl(1, 212, 5411, 12564, 10615, -53)>>,
    <<Dbl(0, 164, 5068, 9010, 9963, -51), Dbl(1, 214, 19647, 27571, 29329, -53)>>,
    <<Dbl(0, 165, 8401, 2693, 3652, -51), Dbl(1, 216, 31800, 18550, 5487, -53)>>,
    <<Dbl(0, 166, 11733, 29143, 30110, -51), Dbl(1, 219, 9078, 17584, 2182, -53)>>,
    <<Dbl(0, 167, 15066, 22826, 23799, -51), Dbl(1, 221, 16995, 11678, 26787, -53)>>,
    <<Dbl(0, 168, 18399, 16509, 17488, -51), Dbl(1, 223, 22761, 8513, 13526, -53)>>,
    <<Dbl(0, 169, 21732, 10192, 11177, -51), Dbl(1, 225, 26355, 3883, 31263, -53)>>,
    <<Dbl(0, 170, 25065, 3875, 4866, -51), Dbl(1, 227, 27756, 14676, 26373, -53)>>,
    <<Dbl(0, 171, 28397, 30325, 31324, -51), Dbl(1, 229, 26945, 13531, 16183, -53)>>,
    <<Dbl(0, 172, 31730, 24008, 25013, -51), Dbl(1, 231, 23902, 27337, 10160, -53)>>,
    <<Dbl(0, 174, 2295, 17691, 18702, -51), Dbl(1, 233, 18610, 6347, 17435, -53)>>,
    <<Dbl(0, 175, 5628, 11374, 12391, -51), Dbl(1, 235, 11049, 20967, 7765, -53)>>,
    <<Dbl(0, 176, 8961, 5057, 6080, -51), Dbl(1, 237, 1203, 32550, 20806, -53)>>,
    <<Dbl(0, 177, 12293, 31507, 32538, -51), Dbl(1, 238, 21824, 24639, 28798, -53)>>,
    <<Dbl(0, 178, 15626, 25190, 26227, -51), Dbl(1, 240, 7360, 3125, 9787, -53)>>,
    <<Dbl(0, 179, 18959, 18873, 19916, -51), Dbl(1, 241, 23330, 29167, 466, -53)>>,
    <<Dbl(0, 180, 22292, 12556, 13605, -51), Dbl(1, 243, 4186, 22733, 28821, -53)>>,
    <<Dbl(0, 181, 25625, 6239, 7295, -51), Dbl(1, 244, 15449, 24887, 23478, -53)>>,
    <<Dbl(0, 182, 28957, 32690, 984, -51), Dbl(1, 245, 24339, 1308, 26047, -53)>>,
    <<Dbl(0, 183, 32290, 26372, 27441, -51), Dbl(1, 246, 30842, 6262, 17068, -53)>>,
    <<Dbl(0, 185, 2855, 20055, 21130, -51), Dbl(1, 248, 2179, 18879, 9665, -53)>>,
    <<Dbl(0, 186, 6188, 13738, 14819, -51), Dbl(1, 249, 3876, 8803, 16533, -53)>>,
    <<Dbl(0, 187, 9521, 7421, 8509, -51), Dbl(1, 250, 3154, 1835, 20243, -53)>>,
    <<Dbl(0, 188, 12854, 1104, 2198, -51), Dbl(1, 251, 3, 14495, 11354, -53)>>,
    <<Dbl(0, 189, 16186, 27554, 28655, -51), Dbl(1, 251, 27183, 21345, 27861, -53)>>,
    <<Dbl(0, 190, 19519, 21237, 22344, -51), Dbl(1, 252, 19150, 20614, 31205, -53)>>,
    <<Dbl(0, 191, 22852, 14920, 16033, -51), Dbl(1, 253, 8665, 1505, 11265, -53)>>,
    <<Dbl(0, 192, 26185, 8603, 9723, -51), Dbl(1, 253, 28488, 9801, 24653, -53)>>,
    <<Dbl(0, 193, 29518, 2286, 3412, -51), Dbl(1, 254, 13078, 16863, 1768, -53)>>,
    <<Dbl(0, 195, 82, 28736, 29869, -51), Dbl(1, 254, 27966, 17983, 10135, -53)>>,
    <<Dbl(0, 196, 3415, 22419, 23558, -51), Dbl(1, 255, 7611, 32441, 23181, -53)>>,
    <<Dbl(0, 197, 6748, 16102, 17247, -51), Dbl(1, 255, 17547, 5241, 13188, -53)>>,
    <<Dbl(0, 198, 10081, 9785, 10937, -51), Dbl(1, 255, 25001, 3753, 7534, -53)>>,
    <<Dbl(0, 199, 13414, 3468, 4626, -51), Dbl(1, 255, 29971, 21136, 9590, -53)>>,
    <<Dbl(0, 200, 16746, 29918, 31083, -51), Dbl(1, 255, 32457, 9127, 13360, -53)>>,
    <<Dbl(0, 201, 20079, 23601, 24772, -51), Dbl(1, 255, 32457, 9127, 13360, -53)>>,
    <<Dbl(0, 202, 23412, 17284, 18461, -51), Dbl(1, 255, 29971, 21136, 9590, -53)>>,
    <<Dbl(0, 203, 26745, 10967, 12151, -51), Dbl(1, 255, 25001, 3753, 7534, -53)>>,
    <<Dbl(0, 204, 30078, 4650, 5840, -51), Dbl(1, 255, 17547, 5241, 13188, -53)>>,
    <<Dbl(0, 206, 642, 31100, 32297, -51), Dbl(1, 255, 7611, 32441, 23181, -53)>>,
    <<Dbl(0, 207, 3975, 24783, 25986, -51), Dbl(1, 254, 27966, 17983, 10135, -53)>>,
    <<Dbl(0, 208, 7308, 18466, 19675, -51), Dbl(1, 254, 13078, 16863, 1769, -53)>>,
    <<Dbl(0, 209, 10641, 12149, 13365, -51), Dbl(1, 253, 28488, 9801, 24653, -53)>>,
    <<Dbl(0, 210, 13974, 5832, 7054, -51), Dbl(1, 253, 8665, 1505, 11266, -53)>>,
    <<Dbl(0, 211, 17306, 32283, 743, -51), Dbl(1, 252, 19150, 20614, 31206, -53)>>,
    <<Dbl(0, 212, 20639, 25965, 27200, -51), Dbl(1, 251, 27183, 21345, 27862, -53)>>,
    <<Dbl(0, 213, 23972, 19648, 20889, -51), Dbl(1, 251, 3, 14495, 11355, -53)>>,
    <<Dbl(0, 214, 27305, 13331, 14579, -51), Dbl(1, 250, 3154, 1835, 20243, -53)>>,
    <<Dbl(0, 215, 30638, 7014, 8268, -51), Dbl(1, 249, 3876, 8803, 16535, -53)>>,
    <<Dbl(0, 217, 1203, 697, 1957, -51), Dbl(1, 248, 2179, 18879, 9667, -53)>>,
    <<Dbl(0, 218, 4535, 27147, 28414, -51), Dbl(1, 246, 30842, 6262, 17070, -53)>>,
    <<Dbl(0, 219, 7868, 20830, 22103, -51), Dbl(1, 245, 24339, 1308, 26048, -53)>>,
    <<Dbl(0, 220, 11201, 14513, 15793, -51), Dbl(1, 244, 15449, 24887, 23479, -53)>>,
    <<Dbl(0, 221, 14534, 8196, 9482, -51), Dbl(1, 243, 4186, 22733, 28823, -53)>>,
    <<Dbl(0, 222, 17867, 1879, 3171, -51), Dbl(1, 241, 23330, 29167, 468, -53)>>,
    <<Dbl(0, 223, 21199, 28329, 29628, -51), Dbl(1, 240, 7360, 3125, 9789, -53)>>,
    <<Dbl(0, 224, 24532, 22012, 23317, -51), Dbl(1, 238, 21824, 24639, 28800, -53)>>,
    <<Dbl(0, 225, 27865, 15695, 17007, -51), Dbl(1, 237, 1203, 32550, 20808, -53)>>,
    <<Dbl(0, 226, 31198, 9378, 10696, -51), Dbl(1, 235, 11049, 20967, 7767, -53)>>,
    <<Dbl(0, 228, 1763, 3061, 4385, -51), Dbl(1, 233, 18610, 6347, 17437, -53)>>,
    <<Dbl(0, 229, 5095, 29511, 30842, -51), Dbl(1, 231, 23902, 27337, 10162, -53)>>,
    <<Dbl(0, 230, 8428, 23194, 24531, -51), Dbl(1, 229, 26945, 13531, 16186, -53)>>,
    <<Dbl(0, 231, 11761, 16877, 18221, -51), Dbl(1, 227, 27756, 14676, 26376, -53)>>,
    <<Dbl(0, 232, 15094, 10560, 11910, -51), Dbl(1, 225, 26355, 3883, 31266, -53)>>,
    <<Dbl(0, 233, 18427, 4243, 5599, -51), Dbl(1, 223, 22761, 8513, 13529, -53)>>,
    <<Dbl(0, 234, 21759, 30693, 32056, -51), Dbl(1, 221, 16995, 11678, 26790, -53)>>,
    <<Dbl(0, 235, 25092, 24376, 25745, -51), Dbl(1, 219, 9078, 17584, 2185, -53)>>,
    <<Dbl(0, 236, 28425, 18059, 19435, -51), Dbl(1, 216, 31800, 18550, 5490, -53)>>,
    <<Dbl(0, 237, 31758, 11742, 13124, -51), Dbl(1, 214, 19647, 27571, 29333, -53)>>,
    <<Dbl(0, 239, 2323, 5425, 6813, -51), Dbl(1, 212, 5411, 12564, 10619, -53)>>,
    <<Dbl(0, 240, 5655, 31876, 502, -51), Dbl(1, 209, 21882, 27211, 9806, -53)>>,
    <<Dbl(0, 241, 8988, 25558, 26959, -51), Dbl(1, 207, 3550, 14127, 29867, -53)>>,
    <<Dbl(0, 242, 12321, 19241, 20649, -51), Dbl(1, 204, 15975, 1233, 1472, -53)>>,
    <<Dbl(0, 243, 15654, 12924, 14338, -51), Dbl(1, 201, 26414, 3204, 2227, -53)>>,
    <<Dbl(0, 244, 18987, 6607, 8027, -51), Dbl(1, 199, 2125, 21229, 24136, -53)>>,
    <<Dbl(0, 245, 22320, 290, 1716, -51), Dbl(1, 196, 8672, 9989, 12653, -53)>>,
    <<Dbl(0, 246, 25652, 26740, 28174, -51), Dbl(1, 193, 13313, 8466, 15873, -53)>>,
    <<Dbl(0, 247, 28985, 20423, 21863, -51), Dbl(1, 190, 16076, 8612, 20437, -53)>>,
    <<Dbl(0, 248, 32318, 14106, 15552, -51), Dbl(1, 187, 16989, 20614, 952, -53)>>,
    <<Dbl(0, 250, 2883, 7789, 9241, -51), Dbl(1, 184, 16082, 7080, 21760, -53)>>,
    <<Dbl(0, 251, 6216, 1472, 2930, -51), Dbl(1, 181, 13383, 13838, 461, -53)>>,
    <<Dbl(0, 252, 9548, 27922, 29388, -51), Dbl(1, 178, 8923, 5801, 20678, -53)>>,
    <<Dbl(0, 253, 12881, 21605, 23077, -51), Dbl(1, 175, 2731, 30526, 17172, -53)>>,
    <<Dbl(0, 254, 16214, 15288, 16766, -51), Dbl(1, 171, 27608, 21303, 15775, -53)>>,
    <<Dbl(0, 255, 19547, 8971, 10455, -51), Dbl(1, 168, 18048, 26234, 13517, -53)>>,
    <<Dbl(0, 128, 11440, 1327, 2072, -50), Dbl(1, 165, 6852, 11318, 26162, -53)>>,
    <<Dbl(0, 128, 29490, 14552, 15301, -50), Dbl(1, 161, 26819, 23983, 11175, -53)>>,
    <<Dbl(0, 129, 14772, 27777, 28529, -50), Dbl(1, 158, 12447, 28926, 29638, -53)>>,
    <<Dbl(0, 130, 55, 8235, 8990, -50), Dbl(1, 154, 29306, 6104, 27486, -53)>>,
    <<Dbl(0, 130, 18105, 21460, 22219, -50), Dbl(1, 151, 11892, 15940, 25745, -53)>>,
    <<Dbl(0, 131, 3388, 1918, 2679, -50), Dbl(1, 147, 25777, 2390, 1873, -53)>>,
    <<Dbl(0, 131, 21438, 15143, 15908, -50), Dbl(1, 144, 5458, 21982, 22523, -53)>>,
    <<Dbl(0, 132, 6720, 28368, 29136, -50), Dbl(1, 140, 16508, 14110, 8418, -53)>>,
    <<Dbl(0, 132, 24771, 8826, 9597, -50), Dbl(1, 136, 26193, 30060, 19210, -53)>>,
    <<Dbl(0, 133, 10053, 22051, 22826, -50), Dbl(1, 133, 1783, 3296, 13227, -53)>>,
    <<Dbl(0, 133, 28104, 2509, 3286, -50), Dbl(1, 129, 8848, 11250, 2829, -53)>>,
    <<Dbl(0, 134, 13386, 15734, 16515, -50), Dbl(1, 250, 29316, 25653, 5204, -54)>>,
    <<Dbl(0, 134, 31436, 28959, 29743, -50), Dbl(1, 243, 5732, 23773, 6545, -54)>>,
    <<Dbl(0, 135, 16719, 9417, 10204, -50), Dbl(1, 235, 12555, 15468, 14798, -54)>>,
    <<Dbl(0, 136, 2001, 22642, 23433, -50), Dbl(1, 227, 17092, 22273, 31731, -54)>>,
    <<Dbl(0, 136, 20052, 3100, 3893, -50), Dbl(1, 219, 19420, 22381, 2597, -54)>>,
    <<Dbl(0, 137, 5334, 16325, 17122, -50), Dbl(1, 211, 19616, 15432, 6231, -54)>>,
    <<Dbl(0, 137, 23384, 29550, 30350, -50), Dbl(1, 203, 17757, 21773, 7633, -54)>>,
    <<Dbl(0, 138, 8667, 10008, 10811, -50), Dbl(1, 195, 13922, 16163, 31898, -54)>>,
    <<Dbl(0, 138, 26717, 23233, 24040, -50), Dbl(1, 187, 8189, 25322, 13580, -54)>>,
    <<Dbl(0, 139, 12000, 3691, 4500, -50), Dbl(1, 179, 638, 28855, 16630, -54)>>,
    <<Dbl(0, 139, 30050, 16916, 17729, -50), Dbl(1, 170, 24117, 24024, 13286, -54)>>,
    <<Dbl(0, 140, 15332, 30141, 30957, -50), Dbl(1, 162, 13170, 24968, 15987, -54)>>,
    <<Dbl(0, 141, 615, 10599, 11418, -50), Dbl(1, 154, 646, 29156, 12395, -54)>>,
    <<Dbl(0, 141, 18665, 23824, 24647, -50), Dbl(1, 145, 19395, 16600, 6500, -54)>>,
    <<Dbl(0, 142, 3948, 4282, 5107, -50), Dbl(1, 137, 3962, 14601, 9196, -54)>>,
    <<Dbl(0, 142, 21998, 17507, 18336, -50), Dbl(1, 128, 19965, 31419, 18930, -54)>>,
    <<Dbl(0, 143, 7280, 30732, 31564, -50), Dbl(1, 240, 3905, 12646, 597, -55)>>,
    <<Dbl(0, 143, 25331, 11190, 12025, -50), Dbl(1, 222, 31083, 10785, 30810, -55)>>,
    <<Dbl(0, 144, 10613, 24415, 25254, -50), Dbl(1, 205, 23328, 15452, 16681, -55)>>,
    <<Dbl(0, 144, 28664, 4873, 5714, -50), Dbl(1, 188, 13576, 5859, 7780, -55)>>,
    <<Dbl(0, 145, 13946, 18098, 18943, -50), Dbl(1, 171, 1994, 13382, 15144, -55)>>,
    <<Dbl(0, 145, 31996, 31323, 32171, -50), Dbl(1, 153, 21519, 21626, 16582, -55)>>,
    <<Dbl(0, 146, 17279, 11781, 12632, -50), Dbl(1, 136, 6784, 30323, 18389, -55)>>,
    <<Dbl(0, 147, 2561, 25006, 25861, -50), Dbl(1, 237, 14223, 9081, 20167, -56)>>,
    <<Dbl(0, 147, 20612, 5464, 6321, -50), Dbl(1, 202, 12571, 8214, 15097, -56)>>,
    <<Dbl(0, 148, 5894, 18689, 19550, -50), Dbl(1, 167, 8954, 3481, 8477, -56)>>,
    <<Dbl(0, 148, 23944, 31915, 10, -50), Dbl(1, 132, 3712, 24934, 21266, -56)>>,
    <<Dbl(0, 149, 9227, 12372, 13239, -50), Dbl(1, 193, 27145, 7420, 2328, -57)>>,
    <<Dbl(0, 149, 27277, 25597, 26468, -50), Dbl(1, 246, 24429, 25114, 21903, -58)>>,
    <<Dbl(0, 150, 12560, 6055, 6928, -50), Dbl(1, 211, 17114, 14024, 2125, -59)>>,
    <<Dbl(0, 150, 30610, 19280, 20157, -50), Dbl(0, 141, 601, 1961, 19029, -60)>>,
    <<Dbl(0, 151, 15892, 32506, 617, -50), Dbl(0, 176, 8515, 13979, 29295, -58)>>,
    <<Dbl(0, 152, 1175, 12963, 13846, -50), Dbl(0, 158, 19872, 18491, 26703, -57)>>,
    <<Dbl(0, 152, 19225, 26188, 27075, -50), Dbl(0, 229, 1179, 12055, 12911, -57)>>,
    <<Dbl(0, 153, 4508, 6646, 7535, -50), Dbl(0, 149, 22899, 4305, 15248, -56)>>,
    <<Dbl(0, 153, 22558, 19871, 20764, -50), Dbl(0, 184, 27371, 765, 8803, -56)>>,
    <<Dbl(0, 154, 7841, 329, 1224, -50), Dbl(0, 219, 30048, 6206, 32237, -56)>>,
    <<Dbl(0, 154, 25891, 13554, 14453, -50), Dbl(0, 254, 30589, 32473, 1395, -56)>>,
    <<Dbl(0, 155, 11173, 26779, 27682, -50), Dbl(0, 144, 30712, 6917, 32327, -55)>>,
    <<Dbl(0, 155, 29224, 7237, 8142, -50), Dbl(0, 162, 11954, 3453, 29765, -55)>>,
    <<Dbl(0, 156, 14506, 20462, 21371, -50), Dbl(0, 179, 24387, 15047, 6927, -55)>>,
    <<Dbl(0, 156, 32557, 920, 1831, -50), Dbl(0, 197, 2307, 17056, 26626, -55)>>,
    <<Dbl(0, 157, 17839, 14145, 15060, -50), Dbl(0, 214, 11082, 1788, 6162, -55)>>,
    <<Dbl(0, 158, 3121, 27370, 28289, -50), Dbl(0, 231, 17775, 12894, 29618, -55)>>,
    <<Dbl(0, 158, 21172, 7828, 8749, -50), Dbl(0, 248, 22220, 15934, 21321, -55)>>,
    <<Dbl(0, 159, 6454, 21053, 21978, -50), Dbl(0, 132, 28509, 15531, 21138, -54)>>,
    <<Dbl(0, 159, 24505, 1511, 2438, -50), Dbl(0, 141, 11850, 18173, 6939, -54)>>,
    <<Dbl(0, 160, 9787, 14736, 15667, -50), Dbl(0, 149, 26587, 1068, 431, -54)>>,
    <<Dbl(0, 160, 27837, 27961, 28896, -50), Dbl(0, 158, 7100, 28255, 26956, -54)>>,
    <<Dbl(0, 161, 13120, 8419, 9356, -50), Dbl(0, 166, 18846, 14060, 27949, -54)>>,
    <<Dbl(0, 161, 31170, 21644, 22585, -50), Dbl(0, 174, 28974, 18796, 7353, -54)>>,
    <<Dbl(0, 162, 16453, 2102, 3045, -50), Dbl(0, 183, 4636, 20176, 283, -54)>>,
    <<Dbl(0, 163, 1735, 15327, 16274, -50), Dbl(0, 191, 11288, 12402, 20486, -54)>>,
    <<Dbl(0, 163, 19785, 28552, 29503, -50), Dbl(0, 199, 16082, 6945, 11322, -54)>>,
    <<Dbl(0, 164, 5068, 9010, 9963, -50), Dbl(0, 207, 18939, 545, 22449, -54)>>,
    <<Dbl(0, 164, 23118, 22235, 23192, -50), Dbl(0, 215, 19780, 8753, 14730, -54)>>,
    <<Dbl(0, 165, 8401, 2693, 3652, -50), Dbl(0, 223, 18528, 1153, 6662, -54)>>,
    <<Dbl(0, 165, 26451, 15918, 16881, -50), Dbl(0, 231, 15105, 424, 30984, -54)>>,
    <<Dbl(0, 166, 11733, 29143, 30110, -50), Dbl(0, 239, 9434, 17558, 24771, -54)>>,
    <<Dbl(0, 166, 29784, 9601, 10570, -50), Dbl(0, 247, 1440, 19831, 6525, -54)>>,
    <<Dbl(0, 167, 15066, 22826, 23799, -50), Dbl(0, 254, 23815, 29847, 8604, -54)>>,
    <<Dbl(0, 168, 349, 3284, 4259, -50), Dbl(0, 131, 5474, 30367, 26295, -53)>>,
    <<Dbl(0, 168, 18399, 16509, 17488, -50), Dbl(0, 134, 30536, 9284, 14895, -53)>>,
    <<Dbl(0, 169, 3681, 29734, 30717, -50), Dbl(0, 138, 21519, 15380, 18229, -53)>>,
    <<Dbl(0, 169, 21732, 10192, 11177, -50), Dbl(0, 142, 11156, 10396, 21506, -53)>>,
    <<Dbl(0, 170, 7014, 23417, 24406, -50), Dbl(0, 145, 32179, 1914, 2168, -53)>>,
    <<Dbl(0, 170, 25065, 3875, 4866, -50), Dbl(0, 149, 19016, 10934, 5492, -53)>>,
    <<Dbl(0, 171, 10347, 17100, 18095, -50), Dbl(0, 153, 4401, 6685, 24451, -53)>>,
    <<Dbl(0, 171, 28397, 30325, 31324, -50), Dbl(0, 156, 21067, 5268, 7976, -53)>>,
    <<Dbl(0, 172, 13680, 10783, 11784, -50), Dbl(0, 160, 3444, 4450, 27266, -53)>>,
    <<Dbl(0, 172, 31730, 24008, 25013, -50), Dbl(0, 163, 17034, 16771, 6992, -53)>>,
    <<Dbl(0, 173, 17013, 4466, 5473, -50), Dbl(0, 166, 29037, 4326, 1166, -53)>>,
    <<Dbl(0, 174, 2295, 17691, 18702, -50), Dbl(0, 170, 6651, 10164, 27626, -53)>>,
    <<Dbl(0, 174, 20345, 30916, 31931, -50), Dbl(0, 173, 15380, 27535, 14873, -53)>>,
    <<Dbl(0, 175, 5628, 11374, 12391, -50), Dbl(0, 176, 22426, 196, 22173, -53)>>,
    <<Dbl(0, 175, 23678, 24599, 25620, -50), Dbl(0, 179, 27755, 19334, 8939, -53)>>,
    <<Dbl(0, 176, 8961, 5057, 6080, -50), Dbl(0, 182, 31338, 28952, 2301, -53)>>,
    <<Dbl(0, 176, 27011, 18282, 19309, -50), Dbl(0, 186, 377, 22778, 4712, -53)>>,
    <<Dbl(0, 177, 12293, 31507, 32538, -50), Dbl(0, 189, 378, 11789, 31741, -53)>>,
    <<Dbl(0, 177, 30344, 11965, 12998, -50), Dbl(0, 191, 31311, 24502, 15193, -53)>>,
    <<Dbl(0, 178, 15626, 25190, 26227, -50), Dbl(0, 194, 27613, 8946, 27473, -53)>>,
    <<Dbl(0, 179, 909, 5648, 6688, -50), Dbl(0, 197, 22022, 29556, 5181, -53)>>,
    <<Dbl(0, 179, 18959, 18873, 19916, -50), Dbl(0, 200, 14513, 5293, 17926, -53)>>,
    <<Dbl(0, 180, 4241, 32099, 377, -50), Dbl(0, 203, 5057, 4830, 31086, -53)>>,
    <<Dbl(0, 180, 22292, 12556, 13605, -50), Dbl(0, 205, 26396, 17434, 11852, -53)>>,
    <<Dbl(0, 181, 7574, 25781, 26834, -50), Dbl(0, 208, 12969, 18755, 15681, -53)>>,
    <<Dbl(0, 181, 25625, 6239, 7295, -50), Dbl(0, 210, 30287, 3849, 21160, -53)>>,
    <<Dbl(0, 182, 10907, 19464, 20523, -50), Dbl(0, 213, 12788, 20188, 2504, -53)>>,
    <<Dbl(0, 182, 28957, 32690, 984, -50), Dbl(0, 215, 25986, 4056, 7873, -53)>>,
    <<Dbl(0, 183, 14240, 13147, 14212, -50), Dbl(0, 218, 4320, 10162, 11789, -53)>>,
    <<Dbl(0, 183, 32290, 26372, 27441, -50), Dbl(0, 220, 13304, 15255, 31019, -53)>>,
    <<Dbl(0, 184, 17573, 6830, 7902, -50), Dbl(0, 222, 20148, 16652, 10076, -53)>>,
    <<Dbl(0, 185, 2855, 20055, 21130, -50), Dbl(0, 224, 24830, 32446, 31359, -53)>>,
    <<Dbl(0, 185, 20906, 513, 1591, -50), Dbl(0, 226, 27331, 3419, 28606, -53)>>,
    <<Dbl(0, 186, 6188, 13738, 14819, -50), Dbl(0, 228, 27628, 22613, 17410, -53)>>,
    <<Dbl(0, 186, 24238, 26963, 28048, -50), Dbl(0, 230, 25704, 7848, 21733, -53)>>,
    <<Dbl(0, 187, 9521, 7421, 8509, -50), Dbl(0, 232, 21538, 29593, 22079, -53)>>,
    <<Dbl(0, 187, 27571, 20646, 21737, -50), Dbl(0, 234, 15114, 16235, 21891, -53)>>,
    <<Dbl(0, 188, 12854, 1104, 2198, -50), Dbl(0, 236, 6413, 16401, 972, -53)>>,
    <<Dbl(0, 188, 30904, 14329, 15426, -50), Dbl(0, 237, 28187, 2517, 16334, -53)>>,
    <<Dbl(0, 189, 16186, 27554, 28655, -50), Dbl(0, 239, 14883, 2049, 22925, -53)>>,
    <<Dbl(0, 190, 1469, 8012, 9116, -50), Dbl(0, 240, 32021, 32120, 2361, -53)>>,
    <<Dbl(0, 190, 19519, 21237, 22344, -50), Dbl(0, 242, 14053, 1355, 5014, -53)>>,
    <<Dbl(0, 191, 4802, 1695, 2805, -50), Dbl(0, 243, 26498, 4941, 5651, -53)>>,
    <<Dbl(0, 191, 22852, 14920, 16033, -50), Dbl(0, 245, 3807, 29848, 29973, -53)>>,
    <<Dbl(0, 192, 8134, 28145, 29262, -50), Dbl(0, 246, 11505, 20499, 26474, -53)>>,
    <<Dbl(0, 192, 26185, 8603, 9723, -50), Dbl(0, 247, 16811, 9961, 6597, -53)>>,
    <<Dbl(0, 193, 11467, 21828, 22951, -50), Dbl(0, 248, 19713, 21758, 26056, -53)>>,
    <<Dbl(0, 193, 29518, 2286, 3412, -50), Dbl(0, 249, 20202, 4450, 6162, -53)>>,
    <<Dbl(0, 194, 14800, 15511, 16640, -50), Dbl(0, 250, 18266, 28335, 16672, -53)>>,
    <<Dbl(0, 195, 82, 28736, 29869, -50), Dbl(0, 251, 13898, 23409, 3403, -53)>>,
    <<Dbl(0, 195, 18133, 9194, 10330, -50), Dbl(0, 252, 7089, 8824, 8198, -53)>>,
    <<Dbl(0, 196, 3415, 22419, 23558, -50), Dbl(0, 252, 30598, 27438, 28464, -53)>>,
    <<Dbl(0, 196, 21466, 2877, 4019, -50), Dbl(0, 253, 18884, 14818, 6988, -53)>>,
    <<Dbl(0, 197, 6748, 16102, 17247, -50), Dbl(0, 254, 4707, 28678, 16828, -53)>>,
    <<Dbl(0, 197, 24798, 29327, 30476, -50), Dbl(0, 254, 20831, 19571, 18064, -53)>>,
    <<Dbl(0, 198, 10081, 9785, 10937, -50), Dbl(0, 255, 1714, 27546, 4985, -53)>>,
    <<Dbl(0, 198, 28131, 23010, 24165, -50), Dbl(0, 255, 12889, 18354, 18939, -53)>>,
    <<Dbl(0, 199, 13414, 3468, 4626, -50), Dbl(0, 255, 21584, 14563, 26359, -53)>>,
    <<Dbl(0, 199, 31464, 16693, 17854, -50), Dbl(0, 255, 27796, 30051, 22069, -53)>>,
    <<Dbl(0, 200, 16746, 29918, 31083, -50), Dbl(0, 255, 31525, 4495, 29842, -53)>>,
    <<Dbl(0, 201, 2029, 10376, 11544, -50), Dbl(0, 128, 0, 0, 0, -52)>>,
    <<Dbl(0, 201, 20079, 23601, 24772, -50), Dbl(0, 255, 31525, 4495, 29842, -53)>> }

\* math.tan of the C library at the arguments the calls below pass to it
\* (binary64 results, <<argument, result>>).
TanTable ==
  { <<Dbl(1, 201, 2029, 10376, 11544, -52), Dbl(1, 232, 2649, 30819, 19893, 1)>>,
    <<Dbl(1, 178, 23649, 5582, 17543, -52), Dbl(1, 181, 15762, 173, 8499, -50)>>,
    <<Dbl(1, 148, 18429, 18771, 22365, -52), Dbl(1, 147, 6223, 13029, 8681, -51)>>,
    <<Dbl(1, 201, 2029, 10376, 11544, -53), Dbl(1, 255, 32767, 32767, 32767, -53)>>,
    <<Dbl(1, 209, 32702, 31954, 22252, -54), Dbl(1, 222, 20445, 4397, 7284, -54)>>,
    <<Dbl(1, 209, 13112, 12481, 28870, -54), Dbl(1, 221, 29930, 16957, 15787, -54)>>,
    <<Dbl(1, 209, 11073, 18445, 24347, -54), Dbl(1, 221, 27508, 26902, 27094, -54)>>,
    <<Dbl(1, 205, 32598, 8822, 5393, -54), Dbl(1, 217, 28833, 7984, 29555, -54)>>,
    <<Dbl(1, 205, 10359, 12688, 1043, -54), Dbl(1, 217, 2581, 29973, 23293, -54)>>,
    <<Dbl(1, 178, 23649, 5582, 17543, -55), Dbl(1, 180, 18311, 22411, 19388, -55)>>,
    <<Dbl(1, 202, 5037, 14502, 5044, -59), Dbl(1, 202, 5373, 20112, 22109, -59)>>,
    <<Dbl(1, 173, 21536, 4084, 1166, -60), Dbl(1, 173, 21589, 13050, 12568, -60)>>,
    <<Dbl(1, 172, 12885, 19494, 22598, -60), Dbl(1, 172, 12937, 23387, 2502, -60)>>,
    <<Zero, Zero>>,
    <<Dbl(0, 233, 7673, 22613, 14898, -62), Dbl(0, 233, 7681, 24793, 1250, -62)>>,
    <<Dbl(0, 178, 23649, 5582, 17543, -55), Dbl(0, 180, 18311, 22411, 19388, -55)>>,
    <<Dbl(0, 209, 12347, 3414, 16619, -54), Dbl(0, 221, 29021, 16260, 30160, -54)>>,
    <<Dbl(0, 209, 13369, 11022, 4810, -54), Dbl(0, 221, 30235, 24439, 17730, -54)>>,
    <<Dbl(0, 209, 32702, 31954, 22252, -54), Dbl(0, 222, 20445, 4397, 7284, -54)>>,
    <<Dbl(0, 201, 2029, 10376, 11544, -53), Dbl(0, 255, 32767, 32767, 32767, -53)>>,
    <<Dbl(0, 148, 18429, 18771, 22365, -52), Dbl(0, 147, 6223, 13029, 8681, -51)>>,
    <<Dbl(0, 178, 23649, 5582, 17543, -52), Dbl(0, 181, 15762, 173, 8499, -50)>>,
    <<Dbl(0, 201, 2029, 10376, 11544, -52), Dbl(0, 232, 2649, 30819, 19893, 1)>> }

\* math.acos of the C library at the arguments the calls below pass to it
\* (binary64 results, <<argument, result>>).
AcosTable ==
  { <<Dbl(1, 128, 0, 0, 0, -52), Dbl(0, 201, 2029, 10376, 11544, -51)>>,
    <<Dbl(1, 255, 32767, 32767, 32767, -53), Dbl(0, 201, 2029, 9352, 11544, -51)>>,
    <<Dbl(1, 255, 32767, 32767, 32763, -53), Dbl(0, 201, 2029, 8086, 20273, -51)>>,
    <<Dbl(1, 255, 6345, 26617, 31951, -53), Dbl(0, 195, 32143, 12690, 20764, -51)>>,
    <<Dbl(1, 255, 5994, 26993, 205, -53), Dbl(0, 195, 31040, 19980, 14962, -51)>>,
    <<Dbl(1, 255, 4949, 17068, 5516, -53), Dbl(0, 195, 27798, 14005, 12126, -51)>>,
    <<Dbl(1, 255, 3210, 2079, 598, -53), Dbl(0, 195, 22535, 5995, 10168, -51)>>,
    <<Dbl(1, 250, 17850, 18483, 20279, -53), Dbl(0, 187, 27064, 16305, 30842, -51)>>,
    <<Dbl(1, 249, 20431, 19741, 2033, -53), Dbl(0, 186, 24497, 12867, 10831, -51)>>,
    <<Dbl(1, 222, 20445, 4397, 7283, -54), Dbl(0, 129, 10488, 11911, 6778, -51)>>,
    <<Dbl(1, 221, 30235, 24439, 17729, -54), Dbl(0, 129, 7300, 2462, 286, -51)>>,
    <<Dbl(1, 221, 29930, 16957, 15786, -54), Dbl(0, 129, 7257, 24185, 8109, -51)>>,
    <<Dbl(1, 221, 29021, 16260, 30159, -54), Dbl(0, 129, 7131, 21418, 9979, -51)>>,
    <<Dbl(1, 221, 27508, 26902, 27093, -54), Dbl(0, 129, 6921, 27798, 21202, -51)>>,
    <<Dbl(1, 217, 28833, 7984, 29554, -54), Dbl(0, 128, 21731, 9040, 3287, -51)>>,
    <<Dbl(1, 217, 2581, 29973, 23292, -54), Dbl(0, 128, 18106, 20260, 21449, -51)>>,
    <<Dbl(1, 207, 20592, 21228, 5629, -54), Dbl(0, 254, 16666, 23598, 24226, -52)>>,
    <<Dbl(1, 180, 18311, 22411, 19387, -55), Dbl(0, 223, 24589, 8445, 22238, -52)>>,
    <<Dbl(1, 143, 10358, 20220, 6334, -56), Dbl(0, 210, 868, 26671, 5180, -52)>>,
    <<Dbl(1, 246, 7113, 7397, 3818, -58), Dbl(0, 204, 29807, 14693, 14023, -52)>>,
    <<Dbl(1, 244, 13923, 18014, 9586, -58), Dbl(0, 204, 28889, 14680, 2835, -52)>>,
    <<Dbl(1, 232, 15488, 17438, 20986, -58), Dbl(0, 204, 22767, 10035, 30105, -52)>>,
    <<Dbl(1, 202, 5373, 20112, 22108, -59), Dbl(0, 202, 21016, 20034, 9115, -52)>>,
    <<Dbl(1, 199, 22741, 13736, 9993, -59), Dbl(0, 202, 20384, 8186, 5156, -52)>>,
    <<Dbl(1, 198, 7880, 1402, 3729, -59), Dbl(0, 202, 20012, 3862, 19421, -52)>>,
    <<Dbl(1, 165, 11215, 18463, 15085, -59), Dbl(0, 202, 11589, 21520, 2062, -52)>>,
    <<Dbl(1, 173, 21589, 13050, 12567, -60), Dbl(0, 201, 24257, 24716, 30910, -52)>>,
    <<Dbl(1, 172, 12937, 23387, 2501, -60), Dbl(0, 201, 24095, 31339, 13347, -52)>>,
    <<Dbl(1, 134, 3296, 31847, 30366, -60), Dbl(0, 201, 19194, 7974, 25406, -52)>>,
    <<Dbl(1, 233, 7681, 24793, 1249, -62), Dbl(0, 201, 9492, 26945, 20609, -52)>>,
    <<Zero, Dbl(0, 201, 2029, 10376, 11544, -52)>>,
    <<Dbl(0, 233, 7681, 24793, 1249, -62), Dbl(0, 200, 27333, 26575, 2480, -52)>>,
    <<Dbl(0, 134, 3296, 31847, 30366, -60), Dbl(0, 200, 17632, 12777, 30451, -52)>>,
    <<Dbl(0, 172, 12937, 23387, 2501, -60), Dbl(0, 200, 12730, 22181, 9741, -52)>>,
    <<Dbl(0, 173, 21589, 13050, 12567, -60), Dbl(0, 200, 12568, 28803, 24946, -52)>>,
    <<Dbl(0, 165, 11215, 18463, 15085, -59), Dbl(0, 199, 25236, 32000, 21027, -52)>>,
    <<Dbl(0, 198, 7880, 1402, 3729, -59), Dbl(0, 199, 16814, 16890, 3668, -52)>>,
    <<Dbl(0, 199, 22741, 13736, 9993, -59), Dbl(0, 199, 16442, 12566, 17933, -52)>>,
    <<Dbl(0, 202, 5373, 20112, 22108, -59), Dbl(0, 199, 15810, 718, 13973, -52)>>,
    <<Dbl(0, 232, 15488, 17438, 20986, -58), Dbl(0, 197, 14059, 10716, 25752, -52)>>,
    <<Dbl(0, 244, 13923, 18014, 9586, -58), Dbl(0, 197, 7937, 6072, 20253, -52)>>,
    <<Dbl(0, 246, 7113, 7397, 3818, -58), Dbl(0, 197, 7019, 6059, 9066, -52)>>,
    <<Dbl(0, 143, 10358, 20220, 6334, -56), Dbl(0, 192, 3189, 26849, 17909, -52)>>,
    <<Dbl(0, 180, 18311, 22411, 19387, -55), Dbl(0, 178, 12237, 12307, 850, -52)>>,
    <<Dbl(0, 207, 20592, 21228, 5629, -54), Dbl(0, 147, 20159, 29921, 31631, -52)>>,
    <<Dbl(0, 217, 2581, 29973, 23292, -54), Dbl(0, 145, 613, 12999, 12959, -52)>>,
    <<Dbl(0, 217, 28833, 7984, 29554, -54), Dbl(0, 144, 26132, 2672, 16515, -52)>>,
    <<Dbl(0, 221, 27508, 26902, 27093, -54), Dbl(0, 143, 22982, 30691, 13453, -52)>>,
    <<Dbl(0, 221, 29021, 16260, 30159, -54), Dbl(0, 143, 22563, 10684, 3131, -52)>>,
    <<Dbl(0, 221, 29930, 16957, 15786, -54), Dbl(0, 143, 22311, 5150, 6871, -52)>>,
    <<Dbl(0, 221, 30235, 24439, 17729, -54), Dbl(0, 143, 22226, 15828, 22517, -52)>>,
    <<Dbl(0, 222, 20445, 4397, 7283, -54), Dbl(0, 143, 15849, 29698, 9532, -52)>>,
    <<Dbl(0, 249, 20431, 19741, 2033, -53), Dbl(0, 229, 958, 25680, 11413, -55)>>,
    <<Dbl(0, 250, 17850, 18483, 20279, -53), Dbl(0, 211, 25421, 3430, 18919, -55)>>,
    <<Dbl(0, 255, 3210, 2079, 598, -53), Dbl(0, 171, 31940, 9121, 11272, -56)>>,
    <<Dbl(0, 255, 4949, 17068, 5516, -53), Dbl(0, 166, 27356, 14943, 14148, -56)>>,
    <<Dbl(0, 255, 5994, 26993, 205, -53), Dbl(0, 163, 21910, 20348, 21707, -56)>>,
    <<Dbl(0, 255, 6345, 26617, 31951, -53), Dbl(0, 162, 19389, 24246, 32648, -56)>>,
    <<Dbl(0, 255, 32767, 32767, 32763, -53), Dbl(0, 143, 3550, 14127, 29864, -77)>>,
    <<Dbl(0, 255, 32767, 32767, 32767, -53), Dbl(0, 128, 0, 0, 0, -78)>>,
    <<Dbl(0, 128, 0, 0, 0, -52), Zero>> }

\* x ** 0.5 (x >= 0) of the C library at the arguments the calls below pass to it
\* (binary64 results, <<argument, result>>).
SqrtTable ==
  { <<Zero, Zero>>,
    <<Dbl(0, 160, 0, 0, 0, -49), Dbl(0, 202, 12640, 30132, 23379, -51)>>,
    <<Dbl(0, 160, 0, 0, 0, -48), Dbl(0, 143, 3550, 14127, 29864, -50)>>,
    <<Dbl(0, 240, 0, 0, 0, -48), Dbl(0, 175, 8887, 9325, 9615, -50)>>,
    <<Dbl(0, 160, 0, 0, 0, -47), Dbl(0, 202, 12640, 30132, 23379, -50)>>,
    <<Dbl(0, 200, 0, 0, 0, -47), Dbl(0, 226, 8984, 62, 2752, -50)>>,
    <<Dbl(0, 240, 0, 0, 0, -47), Dbl(0, 247, 28538, 25246, 20186, -50)>>,
    <<Dbl(0, 140, 0, 0, 0, -46), Dbl(0, 133, 28364, 3929, 12251, -49)>> }
math_sin(x) == (CHOOSE p \in SinTable : p[1] = x)[2]

math_cos(x) == (CHOOSE p \in CosTable : p[1] = x)[2]

math_tan(x) == (CHOOSE p \in TanTable : p[1] = x)[2]

\* math.acos on its domain [-1, 1]
math_acos(x) == (CHOOSE p \in AcosTable : p[1] = x)[2]

\* x ** 0.5 for a float x >= 0
pow_half(x) == (CHOOSE p \in SqrtTable : p[1] = x)[2]

\* math.pi = 3.141592653589793
math_pi == Dbl(0, 201, 2029, 10376, 11544, -51)

One == FromInt(1)

MinusOne == FromInt(-1)

\* ---------------------------------------------------------------- outcomes
\* What a call does: returns a float, returns None (a validator that accepts),
\* returns a complex number, or raises.  aux is the value the call handed to
\* math.acos or to ** 0.5, when it did either.
Value(v) == [kind |-> "value", val |-> v, aux |-> Zero]

ValueAux(v, a) == [kind |-> "value", val |-> v, aux |-> a]

None == [kind |-> "none", val |-> Zero, aux |-> Zero]

\* raise ValueError(...)
ValueError == [kind |-> "ValueError", val |-> Zero, aux |-> Zero]

\* math.acos outside [-1, 1]: ValueError("math domain error")
MathDomainError(a) == [kind |-> "ValueError", val |-> Zero, aux |-> a]

ZeroDivisionError == [kind |-> "ZeroDivisionError", val |-> Zero, aux |-> Zero]

\* a negative float ** 0.5 is a complex number, and so is every product with it
ComplexValue(a) == [kind |-> "complex", val |-> Zero, aux |-> a]

Raised(o) == o.kind \in {"ValueError", "ZeroDivisionError"}

\* statement sequencing: the first statement that raises ends the call
Then(o1, o2) == IF Raised(o1) THEN o1 ELSE o2

\* -------------------------------------------------------------- convert.py
C273_15 == Dbl(0, 136, 18841, 19660, 26214, -44)

convert_celsius2kelvin(celsius) == FAdd(celsius, C273_15)

\* the offset without its fraction
convert_kelvin2celsius_273(kelvin) == FSub(kelvin, FromInt(273))

convert_kelvin2celsius(kelvin) == FSub(kelvin, C273_15)

C180 == FromInt(180)

\* math.pi / 180.0
PiOver180 == FDiv(math_pi, C180)

convert_degrees2radians(degrees) == FMul(degrees, PiOver180)

\* 180.0 / math.pi
C180OverPi == FDiv(C180, math_pi)

convert_radians2degrees(radians) == FMul(radians, C180OverPi)

C0_408 == Dbl(0, 208, 29360, 4194, 9961, -54)

\* the conversion left out
convert_radiation2evaporation_unconverted(radiation) == radiation

convert_radiation2evaporation(radiation) == FMul(radiation, C0_408)

\* ---------------------------------------------------------------- check.py
check_greater_than(a, b) == IF FGt(a, b) THEN ValueError ELSE None

\* the upper bound exclusive
check_between_exclusive(a, min, max) ==
  IF FLt(a, min) \/ FGe(a, max) THEN ValueError ELSE None

check_between(a, min, max) ==
  IF FLt(a, min) \/ FGt(a, max) THEN ValueError ELSE None

\* ------------------------------------------------ evapotranspiration/check.py
Half(h) == FDiv(FromInt(h), FromInt(2))

MINLAT_RADIANS == convert_degrees2radians(FromInt(-90))

MAXLAT_RADIANS == convert_degrees2radians(FromInt(90))

MINSOLDEC_RADIANS == convert_degrees2radians(FNeg(Half(47)))

\* the bound at 23 degrees
MAXSOLDEC_RADIANS_23 == convert_degrees2radians(FromInt(23))

MAXSOLDEC_RADIANS == convert_degrees2radians(Half(47))

MINSHA_RADIANS == Zero

MAXSHA_RADIANS == convert_degrees2radians(C180)

\* day 366 of a leap year forgotten
check_julian_day_365(doy) ==
  IF ~(1 <= doy /\ doy <= 365) THEN ValueError ELSE None

\* doy is an int
check_julian_day(doy) ==
  IF ~(1 <= doy /\ doy <= 366) THEN ValueError ELSE None

check_latitude_radians(latitude) ==
  IF ~(FLe(MINLAT_RADIANS, latitude) /\ FLe(latitude, MAXLAT_RADIANS))
  THEN ValueError ELSE None

check_solar_declination_radians(sd) ==
  IF ~(FLe(MINSOLDEC_RADIANS, sd) /\ FLe(sd, MAXSOLDEC_RADIANS))
  THEN ValueError ELSE None

\* checked against the latitude's upper bound
check_sunset_hour_angle_radians_latbound(sha) ==
  IF ~(FLe(MINSHA_RADIANS, sha) /\ FLe(sha, MAXLAT_RADIANS))
  THEN ValueError ELSE None

check_sunset_hour_angle_radians(sha) ==
  IF ~(FLe(MINSHA_RADIANS, sha) /\ FLe(sha, MAXSHA_RADIANS))
  THEN ValueError ELSE None

\* -------------------------------------------------- evapotranspiration/pet.py
SOLAR_CONSTANT == Dbl(0, 167, 30670, 27787, 8651, -56)

C0_409 == Dbl(0, 209, 13369, 11272, 6291, -54)

C1_39 == Dbl(0, 177, 30146, 18350, 2621, -52)

C0_033 == Dbl(0, 135, 5505, 786, 14156, -57)

C365 == FromInt(365)

\* 2.0 * math.pi / 365.0
TwoPiOver365 == FDiv(FMul(FromInt(2), math_pi), C365)

\* (2.0 * math.pi / 365.0) * day_of_year
DayAngle(day_of_year) == FMul(TwoPiOver365, FromInt(day_of_year))

solar_declination(day_of_year) ==
  Then(check_julian_day(day_of_year),
       Value(FMul(C0_409, math_sin(FSub(DayAngle(day_of_year), C1_39)))))

inverse_relative_distance_earth_sun(day_of_year) ==
  Then(check_julian_day(day_of_year),
       Value(FAdd(One, FMul(C0_033, math_cos(DayAngle(day_of_year))))))

FMax(x, y) == IF FGt(y, x) THEN y ELSE x

FMin(x, y) == IF FLt(y, x) THEN y ELSE x

\* -math.tan(latitude) * math.tan(solar_dec)
CosSha(latitude, solar_dec) ==
  FMul(FNeg(math_tan(latitude)), math_tan(solar_dec))

\* the lower clamp left out
ClampUpperOnly(cos_sha) == FMin(cos_sha, One)

\* min(max(cos_sha, -1.0), 1.0)
Clamp(cos_sha) == FMin(FMax(cos_sha, MinusOne), One)

Acos(x) ==
  IF FLt(x, MinusOne) \/ FGt(x, One) THEN MathDomainError(x)
  ELSE ValueAux(math_acos(x), x)

sunset_hour_angle(latitude, solar_dec) ==
  Then(check_latitude_radians(latitude),
  Then(check_solar_declination_radians(solar_dec),
       Acos(Clamp(CosSha(latitude, solar_dec)))))

\* tmp1 = (24.0 * 60.0) / math.pi
Tmp1 == FDiv(FMul(FromInt(24), FromInt(60)), math_pi)

extraterrestrial_radiation(latitude, solar_dec, sha, irdes) ==
  Then(check_latitude_radians(latitude),
  Then(check_solar_declination_radians(solar_dec),
  Then(check_sunset_hour_angle_radians(sha),
       LET tmp2 == FMul(FMul(sha, math_sin(latitude)), math_sin(solar_dec))
           tmp3 == FMul(FMul(math_cos(latitude), math_cos(solar_dec)),
                        math_sin(sha))
       IN  Value(FMul(FMul(FMul(Tmp1, SOLAR_CONSTANT), irdes),
                      FAdd(tmp2, tmp3))))))

C0_0023 == Dbl(0, 150, 24012, 12792, 20552, -61)

C17_8 == Dbl(0, 142, 13107, 6553, 19661, -48)

\* 0.0023 * (tmean + 17.8) * (tmax - tmin) ** 0.5 * ra_term
HargreavesFormula(tmin, tmax, tmean, ra_term) ==
  LET radicand == FSub(tmax, tmin)
  IN  IF FLt(radicand, Zero) THEN ComplexValue(radicand)
      ELSE ValueAux(FMul(FMul(FMul(C0_0023, FAdd(tmean, C17_8)),
                              pow_half(radicand)),
                         ra_term),
                    radicand)

\* pet.py: no validation, the radiation converted to evaporation
hargreaves_samani(tmin, tmax, tmean, ra) ==
  HargreavesFormula(tmin, tmax, tmean, convert_radiation2evaporation(ra))

\* ------------------------------------------- reference_evapotranspiration.py
\* 0.0820 * 24 * 60 * 0.408
RA_MAX ==
  FMul(FMul(FMul(SOLAR_CONSTANT, FromInt(24)), FromInt(60)), C0_408)

\* the check of tmin against tmean left out
ReferenceEvapotranspiration_hargreaves_samani_no_mean_check(tmin, tmax, tmean, ra) ==
  Then(check_greater_than(tmin, tmax),
  Then(check_greater_than(tmean, tmax),
  Then(check_between(ra, Zero, RA_MAX),
       HargreavesFormula(tmin, tmax, tmean, ra))))

\* ReferenceEvapotranspiration.hargreaves_samani: four checks, ra taken as is
ReferenceEvapotranspiration_hargreaves_samani(tmin, tmax, tmean, ra) ==
  Then(check_greater_than(tmin, tmax),
  Then(check_greater_than(tmean, tmax),
  Then(check_greater_than(tmin, tmean),
  Then(check_between(ra, Zero, RA_MAX),
       HargreavesFormula(tmin, tmax, tmean, ra)))))

C0_34 == Dbl(0, 174, 2621, 14417, 30147, -54)

C900 == FromInt(900)

C273 == FromInt(273)

fao56_penman_monteith(delta, rn, G, gamma, tmean, u2, es, ea) ==
  LET A   == FMul(FMul(C0_408, delta), FSub(rn, G))
      den == FAdd(tmean, C273)
      B   == FMul(FMul(FMul(gamma, FDiv(C900, den)), u2), FSub(es, ea))
      C   == FAdd(delta, FMul(gamma, FAdd(One, FMul(C0_34, u2))))
  IN  IF IsZero(den) THEN ZeroDivisionError
      ELSE IF IsZero(C) THEN ZeroDivisionError
      ELSE Value(FDiv(FAdd(A, B), C))

\* ------------------------------------------------------------------ inputs
\* The arguments the caller passes.  The bounds:
MaxVal == 3

MaxTempStep == 3

MaxDoy == 368

\* the next float above a positive float
NextUp(x) == RoundNE(x.s, NAdd(x.m, <<1>>), x.e, FALSE)

C0_1 == Dbl(0, 204, 26214, 13107, 6554, -56)

C25_3 == Dbl(0, 202, 13107, 6553, 19661, -48)

C36_6 == Dbl(0, 146, 13107, 6553, 19661, -47)

C373_15 == Dbl(0, 186, 18841, 19660, 26214, -44)

SmallInputs == {FromInt(n) : n \in 0..MaxVal}

\* temperatures, in kelvin or degrees Celsius, all of magnitude <= 512
TemperatureInputs ==
  SmallInputs \cup {C0_1, C25_3, C36_6, C273_15, C373_15,
                    FromInt(-40), FromInt(300), FNeg(C0_1), FNeg(C273_15)}

DoyInputs == (-1)..MaxDoy

\* latitudes: -91, -90, -80, -66.5, -45, 0, 45, 66.5, 80, 90, 91 degrees
LatInputs ==
  {convert_degrees2radians(Half(h)) :
     h \in {-182, -180, -160, -133, -90, 0, 90, 133, 160, 180, 182}}
  \cup {NextUp(MAXLAT_RADIANS)}

\* solar declinations: -24, -23.5, -10, 0, 10, 23.5, 24 degrees
SolarDecInputs ==
  {convert_degrees2radians(Half(h)) : h \in {-48, -47, -20, 0, 20, 47, 48}}
  \cup {NextUp(MAXSOLDEC_RADIANS)}

\* sunset hour angles: -1, 0, 90, 180, 181 degrees
ShaInputs ==
  {convert_degrees2radians(Half(h)) : h \in {-2, 0, 180, 360, 362}}
  \cup {NextUp(MAXSHA_RADIANS)}

IrdesInputs == {One, FromInt(-3)}

DegreeInputs == {Half(h) : h \in {-360, -47, 0, 1, 47, 180, 360}}

\* days on which the caller goes on from solar_declination to the radiation
ChainDays == {1, 80, 81, 172, 173, 264, 265, 355, 356, 365, 366}

ValidLatInputs == {l \in LatInputs : check_latitude_radians(l) = None}

Temps == {FromInt(10 * k) : k \in 0..MaxTempStep}

RaInputs ==
  {FromInt(-1), Zero, FromInt(10), RA_MAX, NextUp(RA_MAX), FromInt(49)}

C0_5 == Half(1)

C0_06 == Dbl(0, 245, 24903, 22282, 7864, -57)

C2_4 == Dbl(0, 153, 19660, 26214, 13107, -51)

C1_2 == Dbl(0, 153, 19660, 26214, 13107, -52)

\* ------------------------------------------------------------------- state
\* The library keeps no state.  The state is the caller's: the call it made
\* last, what that call did, and the values it holds from the calls before.
VARIABLES call, out, held

vars == <<call, out, held>>

NoCall == [fn |-> "none", args |-> <<>>]

Init == call = NoCall /\ out = None /\ held = <<>>

Idle == call.fn = "none"

Do(f, a, o) ==
  /\ call' = [fn |-> f, args |-> a]
  /\ out' = o
  /\ held' = <<>>

CallCelsius2Kelvin ==
  /\ Idle
  /\ \E c \in TemperatureInputs :
       Do("convert_celsius2kelvin", <<c>>, Value(convert_celsius2kelvin(c)))

CallKelvin2Celsius ==
  /\ Idle
  /\ \E k \in TemperatureInputs :
       Do("convert_kelvin2celsius", <<k>>, Value(convert_kelvin2celsius(k)))

CallDegrees2Radians ==
  /\ Idle
  /\ \E d \in DegreeInputs :
       Do("convert_degrees2radians", <<d>>, Value(convert_degrees2radians(d)))

CallRadians2Degrees ==
  /\ Idle
  /\ \E r \in LatInputs \cup ShaInputs :
       Do("convert_radians2degrees", <<r>>, Value(convert_radians2degrees(r)))

CallRadiation2Evaporation ==
  /\ Idle
  /\ \E r \in RaInputs :
       Do("convert_radiation2evaporation", <<r>>,
          Value(convert_radiation2evaporation(r)))

CallCheckGreaterThan ==
  /\ Idle
  /\ \E a \in SmallInputs, b \in SmallInputs :
       Do("check_greater_than", <<a, b>>, check_greater_than(a, b))

CallCheckBetween ==
  /\ Idle
  /\ \E a \in SmallInputs, lo \in SmallInputs, hi \in SmallInputs :
       Do("check_between", <<a, lo, hi>>, check_between(a, lo, hi))

CallCheckJulianDay ==
  /\ Idle
  /\ \E doy \in DoyInputs :
       Do("check_julian_day", <<doy>>, check_julian_day(doy))

CallCheckLatitudeRadians ==
  /\ Idle
  /\ \E l \in LatInputs :
       Do("check_latitude_radians", <<l>>, check_latitude_radians(l))

CallCheckSolarDeclinationRadians ==
  /\ Idle
  /\ \E sd \in SolarDecInputs :
       Do("check_solar_declination_radians", <<sd>>,
          check_solar_declination_radians(sd))

CallCheckSunsetHourAngleRadians ==
  /\ Idle
  /\ \E sha \in ShaInputs :
       Do("check_sunset_hour_angle_radians", <<sha>>,
          check_sunset_hour_angle_radians(sha))

CallSolarDeclination ==
  /\ Idle
  /\ \E doy \in DoyInputs :
       Do("solar_declination", <<doy>>, solar_declination(doy))

CallInverseRelativeDistanceEarthSun ==
  /\ Idle
  /\ \E doy \in DoyInputs :
       Do("inverse_relative_distance_earth_sun", <<doy>>,
          inverse_relative_distance_earth_sun(doy))

CallSunsetHourAngle ==
  /\ Idle
  /\ \E l \in LatInputs, sd \in SolarDecInputs :
       Do("sunset_hour_angle", <<l, sd>>, sunset_hour_angle(l, sd))

CallExtraterrestrialRadiation ==
  /\ Idle
  /\ \E l \in LatInputs, sd \in SolarDecInputs, sha \in ShaInputs,
        irdes \in IrdesInputs :
       Do("extraterrestrial_radiation", <<l, sd, sha, irdes>>,
          extraterrestrial_radiation(l, sd, sha, irdes))

CallHargreavesSamani ==
  /\ Idle
  /\ \E tmin \in Temps, tmax \in Temps, tmean \in Temps, ra \in RaInputs :
       Do("hargreaves_samani", <<tmin, tmax, tmean, ra>>,
          hargreaves_samani(tmin, tmax, tmean, ra))

CallReferenceHargreavesSamani ==
  /\ Idle
  /\ \E tmin \in Temps, tmax \in Temps, tmean \in Temps, ra \in RaInputs :
       Do("ReferenceEvapotranspiration.hargreaves_samani",
          <<tmin, tmax, tmean, ra>>,
          ReferenceEvapotranspiration_hargreaves_samani(tmin, tmax, tmean, ra))

CallFao56PenmanMonteith ==
  /\ Idle
  /\ \E delta \in {Zero, C0_5, MinusOne}, gamma \in {Zero, C0_06, One},
        tmean \in {FromInt(-273), FromInt(20)}, u2 \in {Zero, FromInt(2)} :
       Do("fao56_penman_monteith",
          <<delta, FromInt(15), One, gamma, tmean, u2, C2_4, C1_2>>,
          fao56_penman_monteith(delta, FromInt(15), One, gamma, tmean, u2,
                                C2_4, C1_2))

\* convert_celsius2kelvin(convert_kelvin2celsius(k)): held is <<k>>
RoundTripKelvin ==
  /\ call.fn = "convert_kelvin2celsius" /\ held = <<>>
  /\ call' = [fn |-> "convert_celsius2kelvin", args |-> <<out.val>>]
  /\ out' = Value(convert_celsius2kelvin(out.val))
  /\ held' = call.args

\* convert_kelvin2celsius(convert_celsius2kelvin(c)): held is <<c>>
RoundTripCelsius ==
  /\ call.fn = "convert_celsius2kelvin" /\ held = <<>>
  /\ call' = [fn |-> "convert_kelvin2celsius", args |-> <<out.val>>]
  /\ out' = Value(convert_kelvin2celsius(out.val))
  /\ held' = call.args

\* sunset_hour_angle(lat, solar_declination(doy)): held is <<doy>>
ChainSunsetHourAngle ==
  /\ call.fn = "solar_declination" /\ held = <<>> /\ out.kind = "value"
  /\ call.args[1] \in ChainDays
  /\ \E l \in ValidLatInputs :
       /\ call' = [fn |-> "sunset_hour_angle", args |-> <<l, out.val>>]
       /\ out' = sunset_hour_angle(l, out.val)
       /\ held' = call.args

\* inverse_relative_distance_earth_sun(doy): held is <<doy, lat, sd, sha>>
ChainInverseRelativeDistance ==
  /\ call.fn = "sunset_hour_angle" /\ Len(held) = 1 /\ out.kind = "value"
  /\ call' = [fn |-> "inverse_relative_distance_earth_sun", args |-> held]
  /\ out' = inverse_relative_distance_earth_sun(held[1])
  /\ held' = held \o call.args \o <<out.val>>

\* extraterrestrial_radiation(lat, sd, sha, irdes) on the values held
ChainExtraterrestrialRadiation ==
  /\ call.fn = "inverse_relative_distance_earth_sun" /\ Len(held) = 4
  /\ out.kind = "value"
  /\ call' = [fn |-> "extraterrestrial_radiation",
              args |-> <<held[2], held[3], held[4], out.val>>]
  /\ out' = extraterrestrial_radiation(held[2], held[3], held[4], out.val)
  /\ held' = held

\* the caller drops the result and goes on to its next call
Return ==
  /\ ~Idle
  /\ call' = NoCall /\ out' = None /\ held' = <<>>

Next ==
  \/ CallCelsius2Kelvin
  \/ CallKelvin2Celsius
  \/ CallDegrees2Radians
  \/ CallRadians2Degrees
  \/ CallRadiation2Evaporation
  \/ CallCheckGreaterThan
  \/ CallCheckBetween
  \/ CallCheckJulianDay
  \/ CallCheckLatitudeRadians
  \/ CallCheckSolarDeclinationRadians
  \/ CallCheckSunsetHourAngleRadians
  \/ CallSolarDeclination
  \/ CallInverseRelativeDistanceEarthSun
  \/ CallSunsetHourAngle
  \/ CallExtraterrestrialRadiation
  \/ CallReferenceHargreavesSamani
  \/ CallHargreavesSamani
  \/ CallFao56PenmanMonteith
  \/ RoundTripKelvin
  \/ RoundTripCelsius
  \/ ChainSunsetHourAngle
  \/ ChainInverseRelativeDistance
  \/ ChainExtraterrestrialRadiation
  \/ Return

Spec == Init /\ [][Next]_vars

\* ------------------------------------------------------------------ claims
Fn(f) == call.fn = f

PetHS == "hargreaves_samani"

RefHS == "ReferenceEvapotranspiration.hargreaves_samani"

IsHS == call.fn \in {PetHS, RefHS}

\* 48.17664, the float that 0.0820 * 24 * 60 * 0.408 evaluates to
RaLimit == Dbl(0, 192, 23152, 18287, 5421, -47)

\* 90 degrees and 23.5 degrees in radians: 1.5707963267948966 and
\* 0.41015237421866746
HalfPi == Dbl(0, 201, 2029, 10376, 11544, -52)

SolDecLimit == Dbl(0, 209, 32702, 31954, 22252, -54)

InLat(l) == FLe(FNeg(HalfPi), l) /\ FLe(l, HalfPi)

InSolDec(sd) == FLe(FNeg(SolDecLimit), sd) /\ FLe(sd, SolDecLimit)

InSha(sha) == FLe(Zero, sha) /\ FLe(sha, math_pi)

\* |x - y| <= 2^p, computed exactly
AbsDiffLe2Pow(x, y, p) ==
  LET e1 == IF x.e < y.e THEN x.e ELSE y.e
      e0 == IF p < e1 THEN p ELSE e1
      X  == NShl(x.m, x.e - e0)
      Y  == NShl(y.m, y.e - e0)
      D  == IF x.s # y.s /\ ~IsZero(x) /\ ~IsZero(y) THEN NAdd(X, Y)
            ELSE IF NCmp(X, Y) >= 0 THEN NSub(X, Y) ELSE NSub(Y, X)
  IN  NCmp(D, NShl(<<1>>, p - e0)) <= 0

\* C1 as stated: hargreaves_samani raises the range error for every input
\* with tmin >= tmax, tmean >= tmax, tmin >= tmean, ra < 0 or
\* ra > 0.0820*24*60*0.408, the equality cases included.
C1_RejectsEveryNonStrictOrder ==
  IsHS =>
    LET tmin == call.args[1]  tmax == call.args[2]
        tmean == call.args[3] ra == call.args[4]
    IN  (FGe(tmin, tmax) \/ FGe(tmean, tmax) \/ FGe(tmin, tmean)
         \/ FLt(ra, Zero) \/ FGt(ra, RaLimit))
        => out.kind = "ValueError"

\* C1 as amended: ReferenceEvapotranspiration.hargreaves_samani raises the
\* range error exactly when tmin > tmax, tmean > tmax, tmin > tmean, ra < 0
\* or ra > 0.0820*24*60*0.408, and returns a float otherwise (so tmin = tmax,
\* tmean = tmax and tmin = tmean are accepted); hargreaves_samani of pet.py
\* checks nothing and never raises it.
C1_RejectsExactlyStrictViolations ==
  IsHS =>
    LET tmin == call.args[1]  tmax == call.args[2]
        tmean == call.args[3] ra == call.args[4]
        bad == FGt(tmin, tmax) \/ FGt(tmean, tmax) \/ FGt(tmin, tmean)
               \/ FLt(ra, Zero) \/ FGt(ra, RaLimit)
    IN  /\ Fn(RefHS) => (out.kind = "ValueError" <=> bad)
        /\ Fn(RefHS) /\ ~bad => out.kind = "value"
        /\ Fn(PetHS) => out.kind # "ValueError"

\* C1 witness: the validating function accepted tmin = tmean = tmax with ra
\* on its upper limit.
C1_EqualTemperaturesAccepted ==
  /\ Fn(RefHS)
  /\ call.args[1] = call.args[2] /\ call.args[3] = call.args[2]
  /\ call.args[4] = RaLimit
  /\ out.kind = "value"

\* 0.0023 * (tmean + 17.8) * sqrt(tmax - tmin) * ra_term, as the claim
\* writes it
ClaimedETo(tmin, tmax, tmean, ra_term) ==
  FMul(FMul(FMul(C0_0023, FAdd(tmean, C17_8)), pow_half(FSub(tmax, tmin))),
       ra_term)

C37_8 == Dbl(0, 151, 6553, 19660, 26214, -47)

\* 0.0023 * 37.8 * sqrt(20) * 10 * 0.408 = 1.5863345997048666
LiteralETo ==
  FMul(FMul(FMul(FMul(C0_0023, C37_8), pow_half(FromInt(20))), FromInt(10)),
       C0_408)

TenThirtyTwentyTen == <<FromInt(10), FromInt(30), FromInt(20), FromInt(10)>>

\* C2 as stated: whenever hargreaves_samani returns a float, it is
\* 0.0023 * (tmean + 17.8) * sqrt(tmax - tmin) * (ra * 0.408).
C2_ResultConvertsRadiation ==
  IsHS /\ out.kind = "value" =>
    out.val = ClaimedETo(call.args[1], call.args[2], call.args[3],
                         FMul(call.args[4], C0_408))

\* C2 as amended: hargreaves_samani of pet.py returns, for tmax >= tmin,
\* 0.0023 * (tmean + 17.8) * sqrt(tmax - tmin) * (ra * 0.408), which for
\* (10, 30, 20, 10) is 0.0023 * 37.8 * sqrt(20) * 10 * 0.408;
\* ReferenceEvapotranspiration.hargreaves_samani takes ra as it is, without
\* the factor 0.408, and returns 0.0023 * (tmean + 17.8) * sqrt(tmax - tmin)
\* * ra for every input it accepts.
C2_ResultPerVariant ==
  IsHS /\ out.kind = "value" =>
    /\ Fn(PetHS) =>
         out.val = ClaimedETo(call.args[1], call.args[2], call.args[3],
                              FMul(call.args[4], C0_408))
    /\ Fn(RefHS) =>
         out.val = ClaimedETo(call.args[1], call.args[2], call.args[3],
                              call.args[4])
    /\ Fn(PetHS) /\ call.args = TenThirtyTwentyTen =>
         /\ out.val = LiteralETo
         /\ out.val = Dbl(0, 203, 1665, 18247, 28210, -52)
    /\ Fn(RefHS) /\ call.args = TenThirtyTwentyTen =>
         out.val = Dbl(0, 248, 27420, 8548, 20115, -51)

\* C2 witness: both variants returned from (10, 30, 20, 10); this is the one
\* of pet.py, with the literal's value.
C2_LiteralCaseReturned ==
  /\ Fn(PetHS) /\ call.args = TenThirtyTwentyTen
  /\ out.kind = "value" /\ out.val = LiteralETo

\* C3 as stated: a call that fails raises the range error and nothing else,
\* and fao56_penman_monteith returns a value for every input.
C3_OnlyRangeErrors ==
  /\ Raised(out) => out.kind = "ValueError"
  /\ Fn("fao56_penman_monteith") => out.kind = "value"

\* C4: check_julian_day raises exactly when doy < 1 or doy > 366, and
\* solar_declination and inverse_relative_distance_earth_sun return a value
\* exactly for the days it accepts.
C4_JulianDayChecked ==
  LET doy == call.args[1]
      outside == doy < 1 \/ doy > 366
  IN  /\ Fn("check_julian_day") =>
           out.kind = (IF outside THEN "ValueError" ELSE "none")
      /\ Fn("solar_declination") \/ Fn("inverse_relative_distance_earth_sun")
           => out.kind = (IF outside THEN "ValueError" ELSE "value")

\* C4 witness: solar_declination(367) raised.
C4_Day367Rejected ==
  Fn("solar_declination") /\ call.args[1] = 367 /\ out.kind = "ValueError"

\* C5: for a latitude within +-90 degrees and a declination within +-23.5
\* degrees, sunset_hour_angle hands math.acos the product
\* -tan(lat)*tan(solar_dec) clamped to [-1, 1] and returns a value in
\* [0, pi]: 0 when the clamped value is 1, pi when it is -1.
C5_AcosArgumentClamped ==
  Fn("sunset_hour_angle") /\ InLat(call.args[1]) /\ InSolDec(call.args[2]) =>
    LET raw == CosSha(call.args[1], call.args[2])
    IN  /\ out.kind = "value"
        /\ FLe(MinusOne, out.aux) /\ FLe(out.aux, One)
        /\ out.aux = (IF FGt(raw, One) THEN One
                      ELSE IF FLt(raw, MinusOne) THEN MinusOne ELSE raw)
        /\ FLe(Zero, out.val) /\ FLe(out.val, math_pi)
        /\ (out.aux = One => out.val = Zero)
        /\ (out.aux = MinusOne => out.val = math_pi)

\* C5 witness: a product below -1 was clamped, and the result is pi.
C5_ProductBelowMinusOne ==
  /\ Fn("sunset_hour_angle") /\ out.kind = "value"
  /\ InLat(call.args[1]) /\ InSolDec(call.args[2])
  /\ FLt(CosSha(call.args[1], call.args[2]), MinusOne)
  /\ out.val = math_pi

\* C6: extraterrestrial_radiation raises the range error exactly when the
\* latitude is outside +-90 degrees, the declination outside +-23.5 degrees
\* or the sunset hour angle outside [0, 180] degrees (bounds inclusive), and
\* returns a value otherwise, whatever irdes is.
C6_AnglesCheckedIrdesNot ==
  Fn("extraterrestrial_radiation") =>
    out.kind = (IF InLat(call.args[1]) /\ InSolDec(call.args[2])
                   /\ InSha(call.args[3])
                THEN "value" ELSE "ValueError")

\* C6 witness: the three angles on their upper bounds and irdes = -3: a value.
C6_BoundsAcceptedWithOddIrdes ==
  /\ Fn("extraterrestrial_radiation") /\ out.kind = "value"
  /\ call.args[1] = HalfPi /\ call.args[2] = SolDecLimit
  /\ call.args[3] = math_pi /\ call.args[4] = FromInt(-3)

\* C7: check_greater_than(a, b) raises exactly when a > b, and
\* check_between(a, lo, hi) exactly when a < lo or a > hi; both accept
\* equality.
C7_ValidatorsInclusive ==
  \A a \in 0..MaxVal, b \in 0..MaxVal :
    /\ Fn("check_greater_than") /\ call.args = <<FromInt(a), FromInt(b)>> =>
         out.kind = (IF a > b THEN "ValueError" ELSE "none")
    /\ \A c \in 0..MaxVal :
         Fn("check_between")
         /\ call.args = <<FromInt(a), FromInt(b), FromInt(c)>> =>
           out.kind = (IF a < b \/ a > c THEN "ValueError" ELSE "none")

\* C7 witness: check_between accepted a value equal to its upper bound.
C7_UpperBoundAccepted ==
  /\ Fn("check_between") /\ out.kind = "none"
  /\ call.args[1] = call.args[3] /\ FLt(call.args[2], call.args[1])

IsRoundTrip ==
  /\ Fn("convert_celsius2kelvin") \/ Fn("convert_kelvin2celsius")
  /\ Len(held) = 1

\* C8 as stated: converting to the other scale and back returns the
\* temperature exactly.
C8_RoundTripExact == IsRoundTrip => out.val = held[1]

\* C8 as amended: the conversions are inverses up to float rounding: for
\* |t| <= 512 the round trip differs from t by at most 2^-43, and it is
\* exact for integer t; it is not exact for every t (0.1 comes back as
\* 0.10000000000002274).
C8_RoundTripWithinRounding ==
  IsRoundTrip =>
    /\ AbsDiffLe2Pow(out.val, held[1], -43)
    /\ held[1] \in {FromInt(n) : n \in (-40)..MaxVal} \cup {FromInt(300)}
         => out.val = held[1]

\* C8 witness: 0.1 K went to Celsius and back and is no longer 0.1.
C8_TenthComesBackChanged ==
  /\ Fn("convert_celsius2kelvin") /\ held = <<C0_1>>
  /\ out.val = Dbl(0, 204, 26214, 13107, 8192, -56)

\* C9: the solar chain never raises: solar_declination(doy) is within the
\* +-23.5 degree bound for every doy in 1..366 (at most 0.409 in magnitude),
\* sunset_hour_angle of it and a latitude within +-90 degrees is within
\* [0, 180] degrees, and extraterrestrial_radiation of these returns a value.
C9_ChainReturns ==
  /\ Fn("solar_declination") /\ call.args[1] \in 1..366 =>
       /\ out.kind = "value"
       /\ FLe(out.val, C0_409) /\ FLe(FNeg(C0_409), out.val)
       /\ check_solar_declination_radians(out.val) = None
  /\ Fn("sunset_hour_angle") /\ Len(held) = 1 =>
       /\ out.kind = "value"
       /\ check_sunset_hour_angle_radians(out.val) = None
  /\ Fn("inverse_relative_distance_earth_sun") /\ Len(held) = 4 =>
       out.kind = "value"
  /\ Fn("extraterrestrial_radiation") /\ Len(held) = 4 => out.kind = "value"

\* C9 witness: the chain ran to the end for the June solstice at the pole.
C9_ChainEndedAtPole ==
  /\ Fn("extraterrestrial_radiation") /\ Len(held) = 4 /\ out.kind = "value"
  /\ held[1] = 172 /\ held[2] = MAXLAT_RADIANS

\* C10 as stated: whenever hargreaves_samani returns, tmin <= tmean <= tmax
\* and the number whose square root it took is not negative.
C10_RootOfNonNegative ==
  IsHS /\ ~Raised(out) =>
    /\ FLe(call.args[1], call.args[3]) /\ FLe(call.args[3], call.args[2])
    /\ FGe(FSub(call.args[2], call.args[1]), Zero)
    /\ out.kind = "value" /\ FGe(out.aux, Zero)

====
